---- MODULE Spec2Model ----
(***************************************************************************)
(* Model of the allocators of src/src/pool_allocator.h (PoolAllocator,     *)
(* second definition, lines 281-443) and src/src/pool_allocator_chain.h    *)
(* (RWSpinLock, PoolAllocatorChain<.., false> and <.., true>), and of the  *)
(* stack allocators of src/unnamed/part_002 (StackAllocatorImpl,           *)
(* StackAllocator, DualStackAllocator, StackScope).                        *)
(*                                                                         *)
(* Pointers into a pool's backing buffer are modelled by the cell index    *)
(* (value - &_memory[0]); index _capacity is the one-past-end sentinel     *)
(* &_memory[_capacity]; nullptr is Null.  The build modelled is the        *)
(* release build: assert(...) is compiled out.                             *)
(***************************************************************************)
EXTENDS Integers, Sequences, FiniteSets, TLC

\* ------------------------------------------------------------------ bounds
MaxCapacity == 3        \* capacities 1..MaxCapacity of a stand-alone Block Pool
HistLen     == 3        \* number of most recent calls remembered in hist
MaxShape    == 4        \* a Chained Pool has _poolCapacity + poolsCount <= MaxShape
                        \* (a concurrent one: < MaxShape)
NThreads    == 3        \* threads that call into a concurrent pool
MaxUsers    == 2        \* threads that call into a concurrent Chained Pool
MaxCalls    == 5        \* calls made on a concurrent pool in one behaviour
MaxDeepCalls == 7       \* calls made by the two threads of SpecDeep
MaxLocks == 5          \* lock acquisitions started by the threads of SpecRW
MaxRequest == 2         \* a stack alloc asks for 0..MaxRequest bytes, or hundreds of bytes
MaxBytes == 5           \* a DualStackAllocator has 1..MaxBytes bytes
MaxScopes == 2          \* StackScope objects alive at once
MaxStackCalls == 6      \* calls made on the StackAllocator of SpecStack
MaxDualCalls == 4       \* calls made on the DualStackAllocator of SpecDual
FairCapacity == 2       \* capacities 1..FairCapacity of the Block Pool of FairCBP

\* --------------------------------------------------------------- constants
Null == -1              \* nullptr
SizeTModulus == 2^16    \* size_t arithmetic is modular (scaled-down word)
CounterModulus == 2^16  \* std::atomic<uint32_t> allocations wraps (scaled-down word)

VARIABLES
    capacity,       \* PoolAllocator::_capacity
    allocator,      \* PoolAllocator: [current |-> _current, memory |-> next field of each cell]
    liveBlocks,     \* cells handed out by alloc and not yet released (the callers' view)
    hist,           \* the last HistLen calls: [op, arg, ret (pointer result), ok (bool result)]
    stack,          \* reference stack (top first) the pool is compared with
    sentinelRead,   \* TRUE once the next field of &_memory[_capacity] has been read
    poolCapacity,   \* PoolAllocatorChain::_poolCapacity
    poolsCount,     \* capacity of PoolAllocatorChain::_pools (constructor argument)
    pools,          \* PoolAllocatorChain::_pools, the pool of chunk records
    chunk,          \* the chunk records (PoolChunk), by their cell index in _pools
    poolsChain,     \* PoolAllocatorChain::_poolsChain
    reservedPool,   \* PoolAllocatorChain::_reservedPool
    last,           \* the last call on the Chained Pool: [op, arg, ret, ok]
    afterFail,      \* 1: the last call was an alloc that returned Null;
                    \* 2: a failed alloc and then one release; 3: a failed
                    \* alloc, one release and then an alloc; 0 otherwise
    pc,             \* per thread: the step of alloc/free it is at ("idle": in no call)
    loc,            \* per thread: the locals of the call in progress
    held,           \* per thread: the blocks it got from alloc and has not released
    callsLeft,      \* calls that may still be started
    users,          \* threads 1..users call into the concurrent Chained Pool
    alternate,      \* TRUE: every thread strictly alternates alloc and free
    rwLock,         \* PoolAllocatorChain<.., true>::_rwLock
    reservedLock,   \* PoolAllocatorChain<.., true>::_reservedLock (TRUE: set)
    sizeInBytes,    \* size of the array _memory of a StackAllocator / DualStackAllocator
    impl,           \* the StackAllocatorImpl objects: [sizeInBytes, top_down,
                    \* first (offset in the array of the first byte of the span _memory), head]
    marker,         \* per StackAllocatorImpl: the value the caller last got from head()
    scopes,         \* the StackScope objects alive, innermost last: [stack, marker, since]
    handed,         \* per StackAllocatorImpl: the blocks returned by alloc: [ptr, bytes]
    trail           \* the calls made since construction: [op, stack, arg, ret, head, free]

bpVars == <<capacity, allocator, stack, sentinelRead>>

chainVarsNoLast == <<poolCapacity, poolsCount, pools, chunk, poolsChain, reservedPool, afterFail>>

chainVars == <<chainVarsNoLast, last>>

thrVars == <<pc, loc, held, callsLeft, users, alternate, rwLock, reservedLock>>

stackVars == <<sizeInBytes, impl, marker, scopes, handed, trail>>

vars == <<capacity, allocator, liveBlocks, hist, stack, sentinelRead,
          poolCapacity, poolsCount, pools, chunk, poolsChain, reservedPool, last, afterFail,
          pc, loc, held, callsLeft, users, alternate, rwLock, reservedLock,
          sizeInBytes, impl, marker, scopes, handed, trail>>

\* =========================================================================
\* PoolAllocator<bytes, align, thread_safe>  (pure parts)
\* =========================================================================

\* explicit PoolAllocator(size_t capacity): cell i is a free-list node whose
\* next is cell i+1, _current = &_memory[0].
M_ctor_Descending(cap) ==
    [current |-> cap - 1, memory |-> [i \in 0 .. cap - 1 |-> IF i = 0 THEN cap ELSE i - 1]]
PoolAllocator_ctor(cap) ==
    [current |-> 0, memory |-> [i \in 0 .. cap - 1 |-> i + 1]]

\* conversion of a ptrdiff_t to size_t in "id < _capacity"
AsSizeT(id) == id % SizeTModulus

\* the range test of free()/destroy(): id >= 0u && id < _capacity
M_InRange_NoUpper(id, cap) == id >= 0
InRange(id, cap) == id >= 0 /\ AsSizeT(id) < cap

\* nospace(): _current == &_memory[_capacity]
nospace(p, cap) == p.current = cap

\* fetch_add(), thread_safe == false.  "read" tells whether the next field
\* of the sentinel was read.
M_fetch_add_NoSentinelCheck(p, cap) ==
    [ret  |-> p.current,
     pool |-> [p EXCEPT !.current = IF p.current \in DOMAIN p.memory
                                    THEN p.memory[p.current] ELSE p.current],
     read |-> p.current = cap]
fetch_add(p, cap) ==
    IF p.current # cap
    THEN [ret  |-> p.current,
          pool |-> [p EXCEPT !.current = p.memory[p.current]],
          read |-> FALSE]
    ELSE [ret |-> Null, pool |-> p, read |-> FALSE]

\* fetch_sub(id, value), thread_safe == false
M_fetch_sub_KeepNext(p, id) == [p EXCEPT !.current = id]
fetch_sub(p, id) ==
    [p EXCEPT !.memory[id] = p.current, !.current = id]

\* alloc(): fetch_add() and emplace<AllocationOnly>() (which writes nothing)
alloc(p, cap) == fetch_add(p, cap)

\* free(value)
free(p, cap, value) ==
    IF InRange(value, cap)
    THEN [ret |-> TRUE, pool |-> fetch_sub(p, value)]
    ELSE [ret |-> FALSE, pool |-> p]

\* destroy<T>(value): value->~T() touches the payload only
destroy(p, cap, value) ==
    IF InRange(value, cap)
    THEN [ret |-> TRUE, pool |-> fetch_sub(p, value)]
    ELSE [ret |-> FALSE, pool |-> p]

\* the cells reachable from _current through next, up to the sentinel
\* (cut after cap + 1 cells, so a cycle shows as an over-long list)
RECURSIVE Walk(_, _, _, _)
Walk(c, mem, cap, fuel) ==
    IF c = cap \/ c \notin DOMAIN mem \/ fuel = 0 THEN <<>>
    ELSE <<c>> \o Walk(mem[c], mem, cap, fuel - 1)
FreeList(p, cap) == Walk(p.current, p.memory, cap, cap + 1)

Range(s) == {s[i] : i \in DOMAIN s}

\* =========================================================================
\* Single-threaded Block Pool: PoolAllocator<bytes, align, false>
\* =========================================================================
Remember(h, e) ==
    IF Len(h) < HistLen THEN Append(h, e) ELSE Append(Tail(h), e)

\* pointers outside the backing buffer, as cell indices
ForeignPointers(cap) == {-1, cap}

\* the variables of a component that a specification does not use
NoCall == [op |-> "none", arg |-> Null, ret |-> Null, ok |-> FALSE]

BP_Unused ==
    /\ capacity = 0
    /\ allocator = [current |-> 0, memory |-> <<>>]
    /\ stack = <<>>
    /\ sentinelRead = FALSE

Chain_Unused ==
    /\ poolCapacity = 0 /\ poolsCount = 0
    /\ pools = [current |-> 0, memory |-> <<>>]
    /\ chunk = <<>>
    /\ poolsChain = <<>>
    /\ reservedPool = Null
    /\ last = NoCall
    /\ afterFail = 0

Threads == 1 .. NThreads

\* locals of a thread that is in no call
NoLocals == [value |-> Null, next |-> Null, pool |-> Null, it |-> 0, chainSize |-> 0, mem |-> Null]

Threads_Unused ==
    /\ pc = [t \in Threads |-> "idle"]
    /\ loc = [t \in Threads |-> NoLocals]
    /\ held = [t \in Threads |-> {}]
    /\ callsLeft = 0
    /\ users = 0
    /\ alternate = FALSE
    /\ rwLock = 0
    /\ reservedLock = FALSE

Stack_Unused ==
    /\ sizeInBytes = 0
    /\ impl = <<>>
    /\ marker = <<>>
    /\ scopes = <<>>
    /\ handed = <<>>
    /\ trail = <<>>

BP_Init ==
    /\ Stack_Unused
    /\ Chain_Unused
    /\ Threads_Unused
    /\ capacity \in 1 .. MaxCapacity
    /\ allocator = PoolAllocator_ctor(capacity)
    /\ liveBlocks = {}
    /\ hist = <<>>
    /\ stack = [i \in 1 .. capacity |-> i - 1]
    /\ sentinelRead = FALSE

BP_Alloc ==
    LET r == alloc(allocator, capacity) IN
    /\ allocator' = r.pool
    /\ liveBlocks' = IF r.ret = Null THEN liveBlocks ELSE liveBlocks \cup {r.ret}
    /\ hist' = Remember(hist, [op |-> "alloc", arg |-> Null, ret |-> r.ret, ok |-> r.ret # Null])
    /\ stack' = IF stack = <<>> THEN stack ELSE Tail(stack)
    /\ sentinelRead' = (sentinelRead \/ r.read)
    /\ UNCHANGED <<capacity, chainVars, thrVars, stackVars>>

\* release of a block the caller holds (the precondition of release), or of
\* a pointer outside the buffer
BP_Release(value, op) ==
    LET r == IF op = "free" THEN free(allocator, capacity, value)
                            ELSE destroy(allocator, capacity, value) IN
    /\ allocator' = r.pool
    /\ liveBlocks' = liveBlocks \ {value}
    /\ hist' = Remember(hist, [op |-> op, arg |-> value, ret |-> Null, ok |-> r.ret])
    /\ stack' = IF value \in liveBlocks THEN <<value>> \o stack ELSE stack
    /\ UNCHANGED <<capacity, sentinelRead, chainVars, thrVars, stackVars>>

BP_Free == \E value \in liveBlocks \cup ForeignPointers(capacity) : BP_Release(value, "free")

BP_Destroy == \E value \in liveBlocks \cup ForeignPointers(capacity) : BP_Release(value, "destroy")

BP_Next == BP_Alloc \/ BP_Free \/ BP_Destroy

SpecBP == BP_Init /\ [][BP_Next]_vars

\* -------------------------------------------------------------------------
\* Claims about the single-threaded Block Pool (checked under SpecBP)
\* -------------------------------------------------------------------------
LastCall == hist[Len(hist)]
Cells == 0 .. capacity - 1

\* C5: alloc of the single-threaded Block Pool returns a cell of the backing
\* buffer that is not live, returns Null (without reading the sentinel's next
\* field) exactly when capacity blocks are live, and never more than capacity
\* blocks are live.
C5_AllocReturnsFreeCellOrNull ==
    [][BP_Alloc =>
         /\ (LastCall'.ret = Null) <=> (Cardinality(liveBlocks) = capacity)
         /\ LastCall'.ret # Null => LastCall'.ret \in Cells \ liveBlocks
         /\ ~sentinelRead'
         /\ Cardinality(liveBlocks') <= capacity]_vars

C5_Witness ==
    /\ hist # <<>>
    /\ LastCall.op = "alloc" /\ LastCall.ret = Null
    /\ Cardinality(liveBlocks) = capacity
    /\ capacity = MaxCapacity

\* C6: alloc and release are pop and push on a stack that starts as
\* cell 0, cell 1, ..., cell capacity-1 (top first): the free-list always
\* equals the reference stack and every alloc returns the top of that stack
\* (Null when it is empty).
C6_PoolIsLifoStack ==
    /\ [](FreeList(allocator, capacity) = stack)
    /\ [][BP_Alloc =>
            LastCall'.ret = (IF stack = <<>> THEN Null ELSE Head(stack))]_vars

\* released in the order c then a, then a was re-allocated and c is next
C6_Witness ==
    /\ Len(hist) = 3
    /\ hist[1].op = "free" /\ hist[1].ok
    /\ hist[2].op = "free" /\ hist[2].ok
    /\ hist[1].arg > hist[2].arg
    /\ hist[3].op = "alloc" /\ hist[3].ret = hist[2].arg
    /\ allocator.current = hist[1].arg

\* C7: the cells reachable from _current through next up to the sentinel are
\* exactly the cells that are not live, each once, and nospace() holds
\* exactly when that list is empty.
C7_FreeListIsExactlyTheFreeCells ==
    LET fl == FreeList(allocator, capacity) IN
    /\ Range(fl) = Cells \ liveBlocks
    /\ Len(fl) = Cardinality(Range(fl))
    /\ nospace(allocator, capacity) <=> (fl = <<>>)

C7_Witness ==
    /\ hist # <<>> /\ LastCall.op = "free" /\ LastCall.ok
    /\ liveBlocks # {}
    /\ Len(FreeList(allocator, capacity)) >= 2
    /\ allocator.current > allocator.memory[allocator.current]

\* C8: free and destroy called with a pointer outside the backing buffer
\* return false and change neither _current, nor any next field, nor the set
\* of live blocks; called with a pointer inside the buffer they return true.
C8_ForeignPointerRejected ==
    [][\A op \in {"free", "destroy"} :
         \A value \in liveBlocks \cup ForeignPointers(capacity) :
            BP_Release(value, op) =>
               IF value < 0 \/ value >= capacity
               THEN ~LastCall'.ok /\ UNCHANGED <<allocator, liveBlocks>>
               ELSE LastCall'.ok]_vars

C8_Witness ==
    /\ hist # <<>>
    /\ LastCall.op = "destroy" /\ LastCall.arg = capacity /\ ~LastCall.ok
    /\ liveBlocks # {}

\* =========================================================================
\* Single-threaded Chained Pool: PoolAllocatorChain<bytes, align, false>
\*
\* A chunk record (ChainedPool) is named by its cell index in _pools.  The
\* backing buffer of chunk c is modelled at addresses c * _poolCapacity ..
\* c * _poolCapacity + _poolCapacity - 1, so a block is one integer.  The
\* trailing PoolChainAllocationMetaInfo of every cell is the field meta of
\* the chunk whose buffer holds the cell.
\* =========================================================================
Base(c) == c * poolCapacity
Block(c, i) == Base(c) + i
BufferOf(mem) == mem \div poolCapacity      \* the chunk whose buffer holds mem
CellOf(mem) == mem % poolCapacity

\* PoolChunk(capacity): a fresh Block Pool, allocations = 0; the metadata of
\* the fresh buffer has never been written
PoolChunk_ctor(cap) ==
    [allocator   |-> PoolAllocator_ctor(cap),
     allocations |-> 0,
     meta        |-> [i \in 0 .. cap - 1 |-> Null]]

\* a cell of _pools that holds no constructed chunk record
NoChunk == [allocator |-> [current |-> 0, memory |-> <<>>], allocations |-> 0, meta |-> <<>>]

\* AlignmentInfo::metaInfo(mem)->pool
metaInfo(ch, mem) == ch[BufferOf(mem)].meta[CellOf(mem)]

\* the loop of alloc(): index in _poolsChain of the first chunk whose
\* allocator.alloc() is not null, 0 when the loop runs to the end
M_FirstFit_FromBack(ch, chain, cap, i) ==
    LET S == {j \in 1 .. Len(chain) : alloc(ch[chain[j]].allocator, cap).ret # Null} IN
    IF S = {} THEN 0 ELSE CHOOSE j \in S : \A k \in S : k <= j
RECURSIVE FirstFit(_, _, _, _)
FirstFit(ch, chain, cap, i) ==
    IF i > Len(chain) THEN 0
    ELSE IF alloc(ch[chain[i]].allocator, cap).ret # Null THEN i
    ELSE FirstFit(ch, chain, cap, i + 1)

\* pool->allocator.alloc(); metaInfo(mem)->pool = pool; ++pool->allocations
M_TakeFrom_NoCount(rec, c, cap) ==
    LET r == alloc(rec.allocator, cap) IN
    [mem |-> Block(c, r.ret),
     rec |-> [allocator   |-> r.pool,
              allocations |-> rec.allocations,
              meta        |-> [rec.meta EXCEPT ![r.ret] = c]]]
TakeFrom(rec, c, cap) ==
    LET r == alloc(rec.allocator, cap) IN
    [mem |-> Block(c, r.ret),
     rec |-> [allocator   |-> r.pool,
              allocations |-> rec.allocations + 1,
              meta        |-> [rec.meta EXCEPT ![r.ret] = c]]]

\* std::list::remove(pool)
RECURSIVE ListRemove(_, _)
ListRemove(chain, c) ==
    IF chain = <<>> THEN <<>>
    ELSE IF Head(chain) = c THEN ListRemove(Tail(chain), c)
    ELSE <<Head(chain)>> \o ListRemove(Tail(chain), c)

\* setReservedPool(pool), thread_safe == false; the result is the new
\* <<_pools, chunk records, _poolsChain, _reservedPool>>
M_setReservedPool_KeepInChain(mp, ch, chain, res, count, pool) ==
    LET displaced == res # Null /\ res # pool IN
    [pools        |-> IF displaced THEN destroy(mp, count, res).pool ELSE mp,
     chunk        |-> IF displaced THEN [ch EXCEPT ![res] = NoChunk] ELSE ch,
     poolsChain   |-> chain,
     reservedPool |-> pool]
M_setReservedPool_KeepFirst(mp, ch, chain, res, count, pool) ==
    LET displaced == res # Null /\ res # pool IN
    [pools        |-> IF displaced THEN destroy(mp, count, res).pool ELSE mp,
     chunk        |-> IF displaced THEN [ch EXCEPT ![res] = NoChunk] ELSE ch,
     poolsChain   |-> IF chain[1] = pool THEN chain ELSE ListRemove(chain, pool),
     reservedPool |-> IF chain[1] = pool THEN res ELSE pool]
M_setReservedPool_NoDestroy(mp, ch, chain, res, count, pool) ==
    [pools |-> mp, chunk |-> ch, poolsChain |-> ListRemove(chain, pool), reservedPool |-> pool]
setReservedPool(mp, ch, chain, res, count, pool) ==
    LET displaced == res # Null /\ res # pool IN
    [pools        |-> IF displaced THEN destroy(mp, count, res).pool ELSE mp,
     chunk        |-> IF displaced THEN [ch EXCEPT ![res] = NoChunk] ELSE ch,
     poolsChain   |-> ListRemove(chain, pool),
     reservedPool |-> pool]

\* alloc(), growth: _reservedPool ? _reservedPool
\*                               : _pools.create<ChainedPool>(_poolCapacity)
\* the result is the chunk that joins _poolsChain, with the new _pools and
\* chunk records
M_GrowthChunk_CreateFirst(mp, ch, res, count, cap) ==
    IF nospace(mp, count)
    THEN [pool |-> res, pools |-> mp, chunk |-> ch]
    ELSE LET cr == fetch_add(mp, count) IN
         [pool  |-> cr.ret,
          pools |-> cr.pool,
          chunk |-> [ch EXCEPT ![cr.ret] = PoolChunk_ctor(cap)]]
GrowthChunk(mp, ch, res, count, cap) ==
    IF res # Null
    THEN [pool |-> res, pools |-> mp, chunk |-> ch]
    ELSE LET cr == fetch_add(mp, count) IN
         [pool  |-> cr.ret,
          pools |-> cr.pool,
          chunk |-> [ch EXCEPT ![cr.ret] = PoolChunk_ctor(cap)]]

Chain_Init ==
    /\ Stack_Unused
    /\ BP_Unused
    /\ Threads_Unused
    /\ hist = <<>>
    /\ poolCapacity \in 1 .. MaxShape
    /\ poolsCount \in 1 .. MaxShape
    /\ poolCapacity + poolsCount <= MaxShape
    /\ LET r == fetch_add(PoolAllocator_ctor(poolsCount), poolsCount) IN
         /\ pools = r.pool
         /\ chunk = [c \in 0 .. poolsCount - 1 |->
                       IF c = r.ret THEN PoolChunk_ctor(poolCapacity) ELSE NoChunk]
         /\ poolsChain = <<r.ret>>
    /\ reservedPool = Null
    /\ liveBlocks = {}
    /\ last = NoCall
    /\ afterFail = 0

Chain_Alloc ==
    LET i == FirstFit(chunk, poolsChain, poolCapacity, 1) IN
    /\ IF i # 0
       THEN LET c == poolsChain[i]
                t == TakeFrom(chunk[c], c, poolCapacity) IN
            /\ chunk' = [chunk EXCEPT ![c] = t.rec]
            /\ liveBlocks' = liveBlocks \cup {t.mem}
            /\ last' = [op |-> "alloc", arg |-> Null, ret |-> t.mem, ok |-> TRUE]
            /\ UNCHANGED <<pools, poolsChain, reservedPool>>
       ELSE IF reservedPool # Null \/ ~nospace(pools, poolsCount)
       THEN LET g == GrowthChunk(pools, chunk, reservedPool, poolsCount, poolCapacity)
                c == g.pool
                t == TakeFrom(g.chunk[c], c, poolCapacity) IN
            /\ pools' = g.pools
            /\ poolsChain' = Append(poolsChain, c)
            /\ reservedPool' = Null
            /\ chunk' = [g.chunk EXCEPT ![c] = t.rec]
            /\ liveBlocks' = liveBlocks \cup {t.mem}
            /\ last' = [op |-> "alloc", arg |-> Null, ret |-> t.mem, ok |-> TRUE]
       ELSE /\ last' = [op |-> "alloc", arg |-> Null, ret |-> Null, ok |-> FALSE]
            /\ UNCHANGED <<pools, chunk, poolsChain, reservedPool, liveBlocks>>
    /\ afterFail' = IF last'.ret = Null THEN 1 ELSE IF afterFail = 2 THEN 3 ELSE 0
    /\ UNCHANGED <<poolCapacity, poolsCount, bpVars, hist, thrVars, stackVars>>

\* free(mem) / destroy(value) of a block the caller holds
Chain_Release(mem, op) ==
    LET pool == metaInfo(chunk, mem)
        r == IF op = "free" THEN free(chunk[pool].allocator, poolCapacity, mem - Base(pool))
                            ELSE destroy(chunk[pool].allocator, poolCapacity, mem - Base(pool))
        ch1 == [chunk EXCEPT ![pool].allocator = r.pool,
                             ![pool].allocations = @ - 1]
        s == setReservedPool(pools, ch1, poolsChain, reservedPool, poolsCount, pool) IN
    /\ IF r.ret
       THEN IF ch1[pool].allocations = 0
            THEN /\ pools' = s.pools /\ chunk' = s.chunk
                 /\ poolsChain' = s.poolsChain /\ reservedPool' = s.reservedPool
            ELSE /\ chunk' = ch1
                 /\ UNCHANGED <<pools, poolsChain, reservedPool>>
       ELSE UNCHANGED <<pools, chunk, poolsChain, reservedPool>>
    /\ liveBlocks' = liveBlocks \ {mem}
    /\ last' = [op |-> op, arg |-> mem, ret |-> Null, ok |-> r.ret]
    /\ afterFail' = IF afterFail = 1 THEN 2 ELSE 0
    /\ UNCHANGED <<poolCapacity, poolsCount, bpVars, hist, thrVars, stackVars>>

Chain_Free == \E mem \in liveBlocks : Chain_Release(mem, "free")

Chain_Destroy == \E mem \in liveBlocks : Chain_Release(mem, "destroy")

Chain_Next == Chain_Alloc \/ Chain_Free \/ Chain_Destroy

SpecChain == Chain_Init /\ [][Chain_Next]_vars

\* -------------------------------------------------------------------------
\* Claims about the single-threaded Chained Pool (checked under SpecChain)
\* -------------------------------------------------------------------------
HasFreeCell(c) == FreeList(chunk[c].allocator, poolCapacity) # <<>>

\* C9: alloc of the single-threaded Chained Pool walks _poolsChain in
\* insertion order and returns a block of the first chunk that has a free
\* cell; while some chunk of _poolsChain has a free cell it changes no other
\* chunk, nor _poolsChain, _reservedPool or _pools.
C9_FirstChunkWithRoom ==
    [][Chain_Alloc =>
        \A i \in 1 .. Len(poolsChain) :
            (HasFreeCell(poolsChain[i]) /\ \A j \in 1 .. i - 1 : ~HasFreeCell(poolsChain[j]))
            => /\ last'.ret # Null
               /\ BufferOf(last'.ret) = poolsChain[i]
               /\ chunk'[poolsChain[i]].allocations = chunk[poolsChain[i]].allocations + 1
               /\ \A d \in DOMAIN chunk : d # poolsChain[i] => chunk'[d] = chunk[d]
               /\ UNCHANGED <<poolsChain, reservedPool, pools>>]_vars

\* the last alloc took a block of the first chunk although the second chunk
\* has room too
C9_Witness ==
    /\ last.op = "alloc" /\ last.ret # Null
    /\ Len(poolsChain) = 2
    /\ BufferOf(last.ret) = poolsChain[1]
    /\ HasFreeCell(poolsChain[2])

\* C10: alloc of the single-threaded Chained Pool returns Null exactly when
\* poolCapacity * poolsCount blocks are live, and then every chunk of
\* _poolsChain is full, _reservedPool is empty and _pools has no room; an
\* alloc that follows such a failure and one release succeeds.
C10_FailsExactlyAtCapacity ==
    /\ [][Chain_Alloc =>
            /\ (last'.ret = Null) <=> (Cardinality(liveBlocks) = poolCapacity * poolsCount)
            /\ last'.ret = Null =>
                  /\ \A i \in 1 .. Len(poolsChain) : ~HasFreeCell(poolsChain[i])
                  /\ reservedPool = Null
                  /\ nospace(pools, poolsCount)]_vars
    /\ [][Chain_Alloc /\ afterFail = 2 => last'.ret # Null]_vars

\* an alloc failed, one block was released, the next alloc returned a block
C10_Witness ==
    /\ afterFail = 3 /\ last.op = "alloc" /\ last.ret # Null
    /\ Cardinality(liveBlocks) = poolCapacity * poolsCount
    /\ poolsCount = 2 /\ poolCapacity = 2

\* =========================================================================
\* Concurrent Block Pool: PoolAllocator<bytes, align, true>
\*
\* One action is one access to shared memory.  A spurious failure of
\* compare_exchange_weak repeats the step it fails in without changing the
\* state and is not modelled.
\* =========================================================================

\* the compare_exchange_weak of fetch_add(): _current is swapped from value
\* to desired; on failure value becomes the _current that was found
M_fetch_add_cas_KeepExpected(p, value, desired) ==
    IF p.current = value
    THEN [ok |-> TRUE, pool |-> [p EXCEPT !.current = desired], value |-> value]
    ELSE [ok |-> FALSE, pool |-> p, value |-> value]
fetch_add_cas(p, value, desired) ==
    IF p.current = value
    THEN [ok |-> TRUE, pool |-> [p EXCEPT !.current = desired], value |-> value]
    ELSE [ok |-> FALSE, pool |-> p, value |-> p.current]

\* the emplace<AllocationHolder>(_current.load()) of fetch_sub()
fetch_sub_load(p, id) == [p EXCEPT !.memory[id] = p.current]

\* the compare_exchange_weak of fetch_sub(): expected is aHolder.next
\* itself, so a failure stores the _current that was found into it
fetch_sub_cas(p, id) ==
    IF p.current = p.memory[id]
    THEN [ok |-> TRUE, pool |-> [p EXCEPT !.current = id]]
    ELSE [ok |-> FALSE, pool |-> [p EXCEPT !.memory[id] = p.current]]

AllHeld == UNION {held[t] : t \in Threads}

CBP_Init ==
    /\ Stack_Unused
    /\ Chain_Unused
    /\ capacity \in 1 .. MaxCapacity
    /\ allocator = PoolAllocator_ctor(capacity)
    /\ liveBlocks = {}
    /\ hist = <<>>
    /\ stack = <<>>
    /\ sentinelRead = FALSE
    /\ pc = [t \in Threads |-> "idle"]
    /\ loc = [t \in Threads |-> NoLocals]
    /\ held = [t \in Threads |-> {}]
    /\ callsLeft = MaxCalls
    /\ users = NThreads
    /\ alternate = FALSE
    /\ rwLock = 0
    /\ reservedLock = FALSE

CBP_Fixed == <<capacity, liveBlocks, hist, stack, sentinelRead, chainVarsNoLast, users, alternate, rwLock,
              reservedLock, stackVars>>

\* alloc() is called: fetch_add() loads _current and tests it against the sentinel
CBP_AllocCall(t) ==
    /\ pc[t] = "idle" /\ callsLeft > 0
    /\ callsLeft' = callsLeft - 1
    /\ IF allocator.current # capacity
       THEN /\ pc' = [pc EXCEPT ![t] = "fa_next"]
            /\ loc' = [loc EXCEPT ![t].value = allocator.current]
            /\ UNCHANGED last
       ELSE /\ last' = [op |-> "alloc", arg |-> Null, ret |-> Null, ok |-> FALSE]
            /\ UNCHANGED <<pc, loc>>
    /\ UNCHANGED <<allocator, held, CBP_Fixed>>

\* the argument static_cast<AllocationHolder*>(value)->next is evaluated
CBP_FaNext(t) ==
    /\ pc[t] = "fa_next"
    /\ pc' = [pc EXCEPT ![t] = "fa_cas"]
    /\ loc' = [loc EXCEPT ![t].next = allocator.memory[loc[t].value]]
    /\ UNCHANGED <<allocator, held, callsLeft, last, CBP_Fixed>>

\* compare_exchange_weak(value, next); on failure the sentinel test of the loop body
M_CBP_FaCas_NoRecheck(t) ==
    LET r == fetch_add_cas(allocator, loc[t].value, loc[t].next) IN
    /\ pc[t] = "fa_cas"
    /\ allocator' = r.pool
    /\ IF r.ok
       THEN /\ pc' = [pc EXCEPT ![t] = "idle"]
            /\ loc' = [loc EXCEPT ![t] = NoLocals]
            /\ held' = [held EXCEPT ![t] = @ \cup {r.value}]
            /\ last' = [op |-> "alloc", arg |-> Null, ret |-> r.value, ok |-> TRUE]
       ELSE /\ pc' = [pc EXCEPT ![t] = "fa_next"]
            /\ loc' = [loc EXCEPT ![t].value = r.value]
            /\ UNCHANGED <<held, last>>
    /\ UNCHANGED <<callsLeft, CBP_Fixed>>
CBP_FaCas(t) ==
    LET r == fetch_add_cas(allocator, loc[t].value, loc[t].next) IN
    /\ pc[t] = "fa_cas"
    /\ allocator' = r.pool
    /\ IF r.ok
       THEN /\ pc' = [pc EXCEPT ![t] = "idle"]
            /\ loc' = [loc EXCEPT ![t] = NoLocals]
            /\ held' = [held EXCEPT ![t] = @ \cup {r.value}]
            /\ last' = [op |-> "alloc", arg |-> Null, ret |-> r.value, ok |-> TRUE]
       ELSE IF r.value = capacity
       THEN /\ pc' = [pc EXCEPT ![t] = "idle"]
            /\ loc' = [loc EXCEPT ![t] = NoLocals]
            /\ last' = [op |-> "alloc", arg |-> Null, ret |-> Null, ok |-> FALSE]
            /\ UNCHANGED held
       ELSE /\ pc' = [pc EXCEPT ![t] = "fa_next"]
            /\ loc' = [loc EXCEPT ![t].value = r.value]
            /\ UNCHANGED <<held, last>>
    /\ UNCHANGED <<callsLeft, CBP_Fixed>>

\* free(value) is called with a block the thread holds: the range test, then
\* fetch_sub() writes the loaded _current into the cell's next
CBP_FreeCall(t) ==
    \E value \in held[t] :
        /\ pc[t] = "idle" /\ callsLeft > 0
        /\ callsLeft' = callsLeft - 1
        /\ held' = [held EXCEPT ![t] = @ \ {value}]
        /\ IF InRange(value, capacity)
           THEN /\ allocator' = fetch_sub_load(allocator, value)
                /\ pc' = [pc EXCEPT ![t] = "fs_cas"]
                /\ loc' = [loc EXCEPT ![t].mem = value]
                /\ UNCHANGED last
           ELSE /\ last' = [op |-> "free", arg |-> value, ret |-> Null, ok |-> FALSE]
                /\ UNCHANGED <<allocator, pc, loc>>
        /\ UNCHANGED CBP_Fixed

\* compare_exchange_weak(aHolder.next, &aHolder)
CBP_FsCas(t) ==
    LET r == fetch_sub_cas(allocator, loc[t].mem) IN
    /\ pc[t] = "fs_cas"
    /\ allocator' = r.pool
    /\ IF r.ok
       THEN /\ pc' = [pc EXCEPT ![t] = "idle"]
            /\ loc' = [loc EXCEPT ![t] = NoLocals]
            /\ last' = [op |-> "free", arg |-> loc[t].mem, ret |-> Null, ok |-> TRUE]
       ELSE UNCHANGED <<pc, loc, last>>
    /\ UNCHANGED <<held, callsLeft, CBP_Fixed>>

CBP_Next ==
    \E t \in Threads :
        \/ CBP_AllocCall(t)
        \/ CBP_FaNext(t)
        \/ CBP_FaCas(t)
        \/ CBP_FreeCall(t)
        \/ CBP_FsCas(t)

SpecCBP == CBP_Init /\ [][CBP_Next]_vars

\* -------------------------------------------------------------------------
\* Claims about the concurrent Block Pool (checked under SpecCBP)
\* -------------------------------------------------------------------------

\* C1: under every interleaving of alloc and free (each free given a block
\* the calling thread holds) no cell is held by two callers at once: an alloc
\* returns a cell no thread holds at that moment, and at most capacity
\* blocks are held.
C1_NoCellHeldTwice ==
    /\ [](\A t1, t2 \in Threads : t1 # t2 => held[t1] \cap held[t2] = {})
    /\ [](Cardinality(AllHeld) <= capacity)
    /\ [][\A t \in Threads :
            (pc[t] = "fa_cas" /\ pc'[t] = "idle" /\ last'.ret # Null)
            => last'.ret \notin AllHeld]_vars

\* =========================================================================
\* Concurrent Chained Pool: PoolAllocatorChain<bytes, align, true>
\*
\* The chunks are concurrent Block Pools; _pools is a single-threaded one.
\* readLock and writeLock are taken in one step each: the step is enabled
\* when the compare-exchange of the spin loop can succeed.  A statement
\* sequence executed while holding the write lock is one step.
\* =========================================================================

\* pool->allocations.load() in setReservedPool(): the values the load can
\* give.  The record of a destroyed chunk is freed storage of _pools, so the
\* load of a dangling pool gives an arbitrary value (zero or not zero).
LoadAllocations(ch, pool) ==
    IF ch[pool] = NoChunk THEN {0, 1} ELSE {ch[pool].allocations}

\* setReservedPool(pool), thread_safe == true, between writeLock and
\* writeUnlock; loaded is the value of pool->allocations.load()
M_setReservedPool_ts_NoSelfTest(mp, ch, chain, res, count, pool, loaded) ==
    IF loaded = 0
    THEN LET displaced == res # Null IN
         [pools        |-> IF displaced THEN destroy(mp, count, res).pool ELSE mp,
          chunk        |-> IF displaced THEN [ch EXCEPT ![res] = NoChunk] ELSE ch,
          poolsChain   |-> ListRemove(chain, pool),
          reservedPool |-> pool]
    ELSE [pools |-> mp, chunk |-> ch, poolsChain |-> chain, reservedPool |-> res]
setReservedPool_ts(mp, ch, chain, res, count, pool, loaded) ==
    IF loaded = 0
    THEN LET displaced == res # Null /\ res # pool IN
         [pools        |-> IF displaced THEN destroy(mp, count, res).pool ELSE mp,
          chunk        |-> IF displaced THEN [ch EXCEPT ![res] = NoChunk] ELSE ch,
          poolsChain   |-> ListRemove(chain, pool),
          reservedPool |-> pool]
    ELSE [pools |-> mp, chunk |-> ch, poolsChain |-> chain, reservedPool |-> res]

CC_Pool ==
    /\ Stack_Unused
    /\ BP_Unused
    /\ hist = <<>>
    /\ poolCapacity \in 1 .. MaxShape
    /\ poolsCount \in 1 .. MaxShape
    /\ poolCapacity + poolsCount < MaxShape
    /\ LET r == fetch_add(PoolAllocator_ctor(poolsCount), poolsCount) IN
         /\ pools = r.pool
         /\ chunk = [c \in 0 .. poolsCount - 1 |->
                       IF c = r.ret THEN PoolChunk_ctor(poolCapacity) ELSE NoChunk]
         /\ poolsChain = <<r.ret>>
    /\ reservedPool = Null
    /\ liveBlocks = {}
    /\ last = NoCall
    /\ afterFail = 0
    /\ pc = [t \in Threads |-> "idle"]
    /\ loc = [t \in Threads |-> NoLocals]
    /\ held = [t \in Threads |-> {}]
    /\ rwLock = 0
    /\ reservedLock = FALSE

\* any use of the pool by 1..MaxUsers threads
CC_Init ==
    /\ CC_Pool
    /\ callsLeft = MaxCalls
    /\ users \in 1 .. MaxUsers
    /\ alternate = FALSE

\* the stress harness: every thread repeats { alloc; free }
Stress_Init ==
    /\ CC_Pool
    /\ callsLeft = MaxCalls
    /\ users = NThreads
    /\ alternate = TRUE

\* two threads and a longer run of calls
Deep_Init ==
    /\ CC_Pool
    /\ callsLeft = MaxDeepCalls
    /\ users = 2
    /\ alternate = FALSE

CC_Fixed == <<poolCapacity, poolsCount, bpVars, hist, liveBlocks, users, alternate, reservedLock,
             stackVars>>

\* the call has returned: the thread is in no call, its result is recorded
Return(t, call) ==
    /\ pc' = [pc EXCEPT ![t] = "idle"]
    /\ loc' = [loc EXCEPT ![t] = NoLocals]
    /\ last' = call
    /\ afterFail' = IF call.op = "alloc"
                    THEN (IF call.ret = Null THEN 1 ELSE IF afterFail = 2 THEN 3 ELSE 0)
                    ELSE (IF afterFail = 1 THEN 2 ELSE 0)

Goto(t, label) == pc' = [pc EXCEPT ![t] = label]

\* alloc() is called
CC_AllocCall(t) ==
    /\ pc[t] = "idle" /\ callsLeft > 0 /\ t <= users
    /\ alternate => held[t] = {}
    /\ callsLeft' = callsLeft - 1
    /\ Goto(t, "readLock")
    /\ UNCHANGED <<loc, held, rwLock, pools, chunk, poolsChain, reservedPool, last, afterFail, CC_Fixed>>

\* __alloc_start: RWSpinLock::readLock(_rwLock)
CC_ReadLock(t) ==
    /\ pc[t] = "readLock"
    /\ rwLock >= 0
    /\ rwLock' = rwLock + 1
    /\ Goto(t, "loop")
    /\ loc' = [loc EXCEPT ![t] = [NoLocals EXCEPT !.it = 1]]
    /\ UNCHANGED <<held, callsLeft, pools, chunk, poolsChain, reservedPool, last, afterFail, CC_Fixed>>

\* for (auto & pool : _poolsChain): the next chunk's fetch_add() loads
\* _current and tests the sentinel; at the end of the list readUnlock.
\* If the list holds a dangling pointer to a destroyed chunk,
\* pool->allocator.alloc() works on freed storage: it returns nullptr or
\* some address of the freed buffer.
M_CC_Loop_KeepReadLock(t) ==
    /\ pc[t] = "loop"
    /\ IF loc[t].it > Len(poolsChain)
       THEN /\ rwLock' = rwLock
            /\ Goto(t, "snapshot")
            /\ loc' = [loc EXCEPT ![t] = NoLocals]
       ELSE IF chunk[poolsChain[loc[t].it]] = NoChunk
       THEN /\ UNCHANGED rwLock
            /\ \/ /\ UNCHANGED pc
                  /\ loc' = [loc EXCEPT ![t].it = @ + 1]
               \/ \E i \in 0 .. poolCapacity - 1 :
                     /\ Goto(t, "stamp")
                     /\ loc' = [loc EXCEPT ![t] =
                                  [NoLocals EXCEPT !.pool = poolsChain[loc[t].it],
                                                   !.mem = Block(poolsChain[loc[t].it], i)]]
       ELSE LET c == poolsChain[loc[t].it]
                v == chunk[c].allocator.current IN
            /\ UNCHANGED rwLock
            /\ IF v # poolCapacity
               THEN /\ Goto(t, "fa_next")
                    /\ loc' = [loc EXCEPT ![t].pool = c, ![t].value = v]
               ELSE /\ UNCHANGED pc
                    /\ loc' = [loc EXCEPT ![t].it = @ + 1]
    /\ UNCHANGED <<held, callsLeft, pools, chunk, poolsChain, reservedPool, last, afterFail, CC_Fixed>>
CC_Loop(t) ==
    /\ pc[t] = "loop"
    /\ IF loc[t].it > Len(poolsChain)
       THEN /\ rwLock' = rwLock - 1
            /\ Goto(t, "snapshot")
            /\ loc' = [loc EXCEPT ![t] = NoLocals]
       ELSE IF chunk[poolsChain[loc[t].it]] = NoChunk
       THEN /\ UNCHANGED rwLock
            /\ \/ /\ UNCHANGED pc
                  /\ loc' = [loc EXCEPT ![t].it = @ + 1]
               \/ \E i \in 0 .. poolCapacity - 1 :
                     /\ Goto(t, "stamp")
                     /\ loc' = [loc EXCEPT ![t] =
                                  [NoLocals EXCEPT !.pool = poolsChain[loc[t].it],
                                                   !.mem = Block(poolsChain[loc[t].it], i)]]
       ELSE LET c == poolsChain[loc[t].it]
                v == chunk[c].allocator.current IN
            /\ UNCHANGED rwLock
            /\ IF v # poolCapacity
               THEN /\ Goto(t, "fa_next")
                    /\ loc' = [loc EXCEPT ![t].pool = c, ![t].value = v]
               ELSE /\ UNCHANGED pc
                    /\ loc' = [loc EXCEPT ![t].it = @ + 1]
    /\ UNCHANGED <<held, callsLeft, pools, chunk, poolsChain, reservedPool, last, afterFail, CC_Fixed>>

\* fetch_add(): the argument value->next is evaluated
CC_FaNext(t) ==
    /\ pc[t] = "fa_next"
    /\ Goto(t, "fa_cas")
    /\ loc' = [loc EXCEPT ![t].next = chunk[loc[t].pool].allocator.memory[loc[t].value]]
    /\ UNCHANGED <<held, callsLeft, rwLock, pools, chunk, poolsChain, reservedPool, last, afterFail, CC_Fixed>>

\* fetch_add(): compare_exchange_weak(value, next)
CC_FaCas(t) ==
    LET c == loc[t].pool
        r == fetch_add_cas(chunk[c].allocator, loc[t].value, loc[t].next) IN
    /\ pc[t] = "fa_cas"
    /\ chunk' = [chunk EXCEPT ![c].allocator = r.pool]
    /\ IF r.ok
       THEN /\ Goto(t, "stamp")
            /\ loc' = [loc EXCEPT ![t] = [NoLocals EXCEPT !.pool = c, !.mem = Block(c, r.value)]]
       ELSE IF r.value = poolCapacity
       THEN /\ Goto(t, "loop")
            /\ loc' = [loc EXCEPT ![t] = [NoLocals EXCEPT !.it = loc[t].it + 1]]
       ELSE /\ Goto(t, "fa_next")
            /\ loc' = [loc EXCEPT ![t].value = r.value]
    /\ UNCHANGED <<held, callsLeft, rwLock, pools, poolsChain, reservedPool, last, afterFail, CC_Fixed>>

\* metaInfo(mem)->pool = pool; pool->allocations.fetch_add(1u)
\* (on a destroyed chunk both writes go to freed storage)
CC_Stamp(t) ==
    LET c == loc[t].pool IN
    /\ pc[t] = "stamp"
    /\ chunk' = IF chunk[c] = NoChunk THEN chunk
                ELSE [chunk EXCEPT ![c].meta[CellOf(loc[t].mem)] = c,
                                   ![c].allocations = @ + 1]
    /\ Goto(t, "a_unlock")
    /\ UNCHANGED <<loc, held, callsLeft, rwLock, pools, poolsChain, reservedPool, last, afterFail, CC_Fixed>>

\* _rwLock.fetch_sub(1); return mem
CC_AllocReturn(t) ==
    /\ pc[t] = "a_unlock"
    /\ rwLock' = rwLock - 1
    /\ held' = [held EXCEPT ![t] = @ \cup {loc[t].mem}]
    /\ Return(t, [op |-> "alloc", arg |-> Null, ret |-> loc[t].mem, ok |-> TRUE])
    /\ UNCHANGED <<callsLeft, pools, chunk, poolsChain, reservedPool, CC_Fixed>>

\* const auto chainSize = _poolsChain.size()
CC_Snapshot(t) ==
    /\ pc[t] = "snapshot"
    /\ loc' = [loc EXCEPT ![t].chainSize = Len(poolsChain)]
    /\ Goto(t, "a_wlock")
    /\ UNCHANGED <<held, callsLeft, rwLock, pools, chunk, poolsChain, reservedPool, last, afterFail, CC_Fixed>>

\* RWSpinLock::writeLock(_rwLock) in alloc()
M_CC_AllocWriteLock_NoLock(t) ==
    /\ pc[t] = "a_wlock"
    /\ rwLock' = rwLock
    /\ Goto(t, "grow")
    /\ UNCHANGED <<loc, held, callsLeft, pools, chunk, poolsChain, reservedPool, last, afterFail, CC_Fixed>>
CC_AllocWriteLock(t) ==
    /\ pc[t] = "a_wlock"
    /\ rwLock = 0
    /\ rwLock' = -1
    /\ Goto(t, "grow")
    /\ UNCHANGED <<loc, held, callsLeft, pools, chunk, poolsChain, reservedPool, last, afterFail, CC_Fixed>>

\* the block of alloc() that runs holding the write lock
M_CC_Grow_NoRecheck(t) ==
    /\ pc[t] = "grow"
    /\ IF reservedPool # Null \/ ~nospace(pools, poolsCount)
       THEN LET g == GrowthChunk(pools, chunk, reservedPool, poolsCount, poolCapacity) IN
            /\ pools' = g.pools
            /\ chunk' = g.chunk
            /\ reservedPool' = Null
            /\ poolsChain' = Append(poolsChain, g.pool)
            /\ rwLock' = 0
            /\ Goto(t, "readLock")
            /\ loc' = [loc EXCEPT ![t] = NoLocals]
            /\ UNCHANGED <<last, afterFail>>
       ELSE /\ Return(t, [op |-> "alloc", arg |-> Null, ret |-> Null, ok |-> FALSE])
            /\ UNCHANGED <<rwLock, pools, chunk, poolsChain, reservedPool>>
    /\ UNCHANGED <<held, callsLeft, CC_Fixed>>
CC_Grow(t) ==
    /\ pc[t] = "grow"
    /\ IF loc[t].chainSize # Len(poolsChain)
       THEN /\ rwLock' = 0
            /\ Goto(t, "readLock")
            /\ loc' = [loc EXCEPT ![t] = NoLocals]
            /\ UNCHANGED <<pools, chunk, poolsChain, reservedPool, last, afterFail>>
       ELSE IF reservedPool # Null \/ ~nospace(pools, poolsCount)
       THEN LET g == GrowthChunk(pools, chunk, reservedPool, poolsCount, poolCapacity) IN
            /\ pools' = g.pools
            /\ chunk' = g.chunk
            /\ reservedPool' = Null
            /\ poolsChain' = Append(poolsChain, g.pool)
            /\ rwLock' = 0
            /\ Goto(t, "readLock")
            /\ loc' = [loc EXCEPT ![t] = NoLocals]
            /\ UNCHANGED <<last, afterFail>>
       ELSE /\ Return(t, [op |-> "alloc", arg |-> Null, ret |-> Null, ok |-> FALSE])
            /\ UNCHANGED <<rwLock, pools, chunk, poolsChain, reservedPool>>
    /\ UNCHANGED <<held, callsLeft, CC_Fixed>>

\* free(mem) is called with a block the thread holds: the chunk is read from
\* the metadata, allocator.free() tests the range and fetch_sub() writes the
\* loaded _current into the cell's next.  For a block of a destroyed chunk
\* the metadata is read from the freed buffer: free() returns either value.
CC_FreeCall(t) ==
    \E mem \in held[t] :
        /\ pc[t] = "idle" /\ callsLeft > 0 /\ t <= users
        /\ callsLeft' = callsLeft - 1
        /\ held' = [held EXCEPT ![t] = @ \ {mem}]
        /\ IF chunk[BufferOf(mem)] = NoChunk
           THEN /\ \E ok \in BOOLEAN :
                     Return(t, [op |-> "free", arg |-> Null, ret |-> Null, ok |-> ok])
                /\ UNCHANGED chunk
           ELSE LET c == metaInfo(chunk, mem) IN
                IF InRange(mem - Base(c), poolCapacity)
                THEN /\ chunk' = [chunk EXCEPT ![c].allocator = fetch_sub_load(@, mem - Base(c))]
                     /\ Goto(t, "fs_cas")
                     /\ loc' = [loc EXCEPT ![t].pool = c, ![t].mem = mem]
                     /\ UNCHANGED <<last, afterFail>>
                ELSE /\ Return(t, [op |-> "free", arg |-> Null, ret |-> Null, ok |-> FALSE])
                     /\ UNCHANGED chunk
        /\ UNCHANGED <<rwLock, pools, poolsChain, reservedPool, CC_Fixed>>

\* fetch_sub(): compare_exchange_weak(aHolder.next, &aHolder)
CC_FsCas(t) ==
    LET c == loc[t].pool
        r == fetch_sub_cas(chunk[c].allocator, loc[t].mem - Base(c)) IN
    /\ pc[t] = "fs_cas"
    /\ chunk' = [chunk EXCEPT ![c].allocator = r.pool]
    /\ IF r.ok THEN Goto(t, "dec") ELSE UNCHANGED pc
    /\ UNCHANGED <<loc, held, callsLeft, rwLock, pools, poolsChain, reservedPool, last, afterFail, CC_Fixed>>

\* pool->allocations.fetch_sub(1u) == 1u ? setReservedPool(pool) : return true
CC_Dec(t) ==
    LET c == loc[t].pool IN
    /\ pc[t] = "dec"
    /\ chunk' = [chunk EXCEPT ![c].allocations = (@ - 1) % CounterModulus]
    /\ IF chunk[c].allocations = 1
       THEN /\ Goto(t, "r_wlock")
            /\ UNCHANGED <<loc, last, afterFail>>
       ELSE Return(t, [op |-> "free", arg |-> Null, ret |-> Null, ok |-> TRUE])
    /\ UNCHANGED <<held, callsLeft, rwLock, pools, poolsChain, reservedPool, CC_Fixed>>

\* RWSpinLock::writeLock(_rwLock) in setReservedPool()
CC_RetireWriteLock(t) ==
    /\ pc[t] = "r_wlock"
    /\ rwLock = 0
    /\ rwLock' = -1
    /\ Goto(t, "retire")
    /\ UNCHANGED <<loc, held, callsLeft, pools, chunk, poolsChain, reservedPool, last, afterFail, CC_Fixed>>

\* the body of setReservedPool() and writeUnlock; free() returns true
CC_Retire(t) ==
    /\ pc[t] = "retire"
    /\ \E loaded \in LoadAllocations(chunk, loc[t].pool) :
         LET s == setReservedPool_ts(pools, chunk, poolsChain, reservedPool,
                                     poolsCount, loc[t].pool, loaded) IN
         /\ pools' = s.pools /\ chunk' = s.chunk
         /\ poolsChain' = s.poolsChain /\ reservedPool' = s.reservedPool
    /\ rwLock' = 0
    /\ Return(t, [op |-> "free", arg |-> Null, ret |-> Null, ok |-> TRUE])
    /\ UNCHANGED <<held, callsLeft, CC_Fixed>>

CC_Thread(t) ==
    \/ CC_AllocCall(t)
    \/ CC_ReadLock(t)
    \/ CC_Loop(t)
    \/ CC_FaNext(t)
    \/ CC_FaCas(t)
    \/ CC_Stamp(t)
    \/ CC_AllocReturn(t)
    \/ CC_Snapshot(t)
    \/ CC_AllocWriteLock(t)
    \/ CC_Grow(t)
    \/ CC_FreeCall(t)
    \/ CC_FsCas(t)
    \/ CC_Dec(t)
    \/ CC_RetireWriteLock(t)
    \/ CC_Retire(t)

CC_Next == \E t \in Threads : CC_Thread(t)

SpecCChain == CC_Init /\ [][CC_Next]_vars

\* every thread that can take a step eventually takes one
FairCChain == SpecCChain /\ \A t \in Threads : WF_vars(CC_Thread(t))

SpecStress == Stress_Init /\ [][CC_Next]_vars

SpecDeep == Deep_Init /\ [][CC_Next]_vars

\* -------------------------------------------------------------------------
\* Claims about the concurrent Chained Pool
\* -------------------------------------------------------------------------

\* C2 (SpecStress): with threads that each repeat alloc then free, alloc
\* never returns a block that a thread still holds, so no block is held by
\* two threads, across growth, retirement and reuse of the reserved chunk.
C2_NoBlockReturnedTwice ==
    /\ [](\A t1, t2 \in Threads : t1 # t2 => held[t1] \cap held[t2] = {})
    /\ [][\A t \in Threads :
            (pc[t] = "a_unlock" /\ pc'[t] = "idle") => loc[t].mem \notin AllHeld]_vars

\* C3 (FairCChain): with finitely many calls per thread and fair scheduling
\* every call that has started returns.
C3_EveryCallReturns ==
    \A t \in Threads : (pc[t] # "idle") ~> (pc[t] = "idle")

InAlloc(t) ==
    pc[t] \in {"readLock", "loop", "fa_next", "fa_cas", "stamp", "a_unlock",
               "snapshot", "a_wlock", "grow"}

InFree(t) == pc[t] \in {"fs_cas", "dec", "r_wlock", "retire"}

\* C4 (FairCChain): used by one thread, after an alloc has returned Null the
\* free of one block returns, and the alloc that follows it returns a block.
C4_AllocSucceedsAfterFailureAndFree ==
    /\ (users = 1 /\ afterFail = 1 /\ InFree(1)) ~> (pc[1] = "idle")
    /\ (users = 1 /\ afterFail = 2 /\ InAlloc(1)) ~> (afterFail = 3)

\* =========================================================================
\* Both variants of the Chained Pool in one specification: a behaviour is a
\* behaviour of PoolAllocatorChain<.., false> (users = 0) or one of
\* PoolAllocatorChain<.., true> (users >= 1)
\* =========================================================================
Both_Init == Chain_Init \/ CC_Init

Both_Next ==
    \/ (users = 0 /\ Chain_Next)
    \/ (users > 0 /\ CC_Next)

SpecBoth == Both_Init /\ [][Both_Next]_vars

\* chunk records currently allocated from _pools
RecordsInUse(mp) == poolsCount - Len(FreeList(mp, poolsCount))

\* C11 (SpecBoth): a step that appends a chunk to _poolsChain appends the
\* reserved chunk if there is one, empties _reservedPool and then leaves
\* _pools unchanged; _pools hands out a chunk record only in a step that
\* starts with _reservedPool empty; and an alloc that finds no free cell in
\* _poolsChain while a chunk is reserved does append it.
C11_GrowthReusesReserved ==
    /\ [][Len(poolsChain') > Len(poolsChain) =>
            IF reservedPool # Null
            THEN /\ poolsChain' = Append(poolsChain, reservedPool)
                 /\ reservedPool' = Null
                 /\ pools' = pools
                 /\ RecordsInUse(pools') = RecordsInUse(pools)
            ELSE /\ reservedPool' = Null
                 /\ RecordsInUse(pools') = RecordsInUse(pools) + 1
                 /\ poolsChain' = Append(poolsChain, pools.current)]_vars
    /\ [][RecordsInUse(pools') > RecordsInUse(pools) => reservedPool = Null]_vars
    /\ [][(users = 0 /\ Chain_Alloc /\ reservedPool # Null
              /\ FirstFit(chunk, poolsChain, poolCapacity, 1) = 0)
           => poolsChain' = Append(poolsChain, reservedPool)]_vars
    /\ [][\A t \in Threads :
              (CC_Grow(t) /\ reservedPool # Null /\ loc[t].chainSize = Len(poolsChain))
              => poolsChain' = Append(poolsChain, reservedPool)]_vars

\* the last alloc took the first block of a chunk that joined _poolsChain
\* last and that carries the stamps of an earlier life: it was the reserved
\* chunk
C11_Witness ==
    /\ last.op = "alloc" /\ last.ret # Null
    /\ poolsChain # <<>>
    /\ LET c == BufferOf(last.ret) IN
         /\ poolsChain[Len(poolsChain)] = c
         /\ chunk[c].allocations = 1
         /\ Cardinality({i \in DOMAIN chunk[c].meta : chunk[c].meta[i] # Null}) >= 2

\* -------------------------------------------------------------------------
\* More claims about the single-threaded Chained Pool (checked under SpecChain)
\* -------------------------------------------------------------------------
ChunkFreeList(ch, c) == FreeList(ch[c].allocator, poolCapacity)

\* C12: free/destroy of a held block mem pushes mem on the free-list of the
\* chunk its metadata names and decrements that chunk's allocations by one.
\* If allocations was 1 the chunk leaves _poolsChain and becomes
\* _reservedPool, and a different chunk that was reserved is destroyed and
\* its record returned to _pools; otherwise _poolsChain, _reservedPool and
\* _pools do not change.
C12_ReleaseRetiresEmptyChunk ==
    [][last'.op \in {"free", "destroy"} =>
            LET mem == last'.arg
                c == metaInfo(chunk, mem) IN
            /\ mem \in liveBlocks
            /\ c = BufferOf(mem)
            /\ last'.ok
            /\ ChunkFreeList(chunk', c) = <<CellOf(mem)>> \o ChunkFreeList(chunk, c)
            /\ chunk'[c].allocations = chunk[c].allocations - 1
            /\ IF chunk[c].allocations = 1
               THEN /\ poolsChain' = SelectSeq(poolsChain, LAMBDA x : x # c)
                    /\ Len(poolsChain') = Len(poolsChain) - 1
                    /\ reservedPool' = c
                    /\ IF reservedPool # Null /\ reservedPool # c
                       THEN /\ chunk'[reservedPool] = NoChunk
                            /\ FreeList(pools', poolsCount)
                                 = <<reservedPool>> \o FreeList(pools, poolsCount)
                       ELSE pools' = pools
               ELSE UNCHANGED <<poolsChain, reservedPool, pools>>]_vars

\* the last release emptied a chunk, which is now reserved, while another
\* chunk is still in _poolsChain and the record of a destroyed chunk heads
\* the free-list of _pools
C12_Witness ==
    /\ last.op = "free" /\ last.ok
    /\ reservedPool = BufferOf(last.arg)
    /\ chunk[reservedPool].allocations = 0
    /\ poolsChain # <<>>
    /\ pools.current = 0
    /\ chunk[0] = NoChunk

\* C13: a chunk in _reservedPool is not in _poolsChain, has allocations = 0
\* and has every one of its _poolCapacity cells on its free-list, each once.
C13_ReservedChunkIsEmptyAndInactive ==
    reservedPool # Null =>
        /\ reservedPool \notin Range(poolsChain)
        /\ chunk[reservedPool].allocations = 0
        /\ LET fl == ChunkFreeList(chunk, reservedPool) IN
             /\ Len(fl) = poolCapacity
             /\ Range(fl) = 0 .. poolCapacity - 1

\* the chunks that exist: those of _poolsChain and the reserved one
ExistingChunks == Range(poolsChain) \cup ({reservedPool} \ {Null})

\* C14 (SpecChain): after construction and after every alloc, free or
\* destroy, the allocations counter of every existing chunk equals the
\* number of live blocks of that chunk's buffer, and equals _poolCapacity
\* minus the length of the chunk's free-list.
C14_CounterCountsLiveBlocks ==
    \A c \in ExistingChunks :
        /\ chunk[c].allocations = Cardinality({m \in liveBlocks : BufferOf(m) = c})
        /\ chunk[c].allocations = poolCapacity - Len(ChunkFreeList(chunk, c))

\* two chunks in _poolsChain, the first with a released cell, both counting
\* one live block
C14_Witness ==
    /\ last.op = "free" /\ last.ok
    /\ Len(poolsChain) = 2
    /\ chunk[poolsChain[1]].allocations = 1
    /\ chunk[poolsChain[2]].allocations = 1
    /\ BufferOf(last.arg) = poolsChain[1]
    /\ poolCapacity = 2

\* blocks returned by alloc and not yet released, in either variant
LiveNow == liveBlocks \cup AllHeld

\* C15: for every block returned by alloc and not yet released,
\* the chunk whose buffer holds the block exists, is in _poolsChain, is not
\* the reserved chunk, and is the chunk stored in the block's metadata.
C15_MetadataNamesActiveOwner ==
    \A p \in LiveNow :
        LET c == BufferOf(p) IN
        /\ chunk[c] # NoChunk
        /\ c \in Range(poolsChain)
        /\ c # reservedPool
        /\ metaInfo(chunk, p) = c

\* C16: the chunks in _poolsChain plus the reserved one are as many as the
\* chunk records allocated from _pools, never more than poolsCount, and no
\* chunk is in _poolsChain twice.
C16_ChunkCountMatchesMetaPool ==
    LET existing == Len(poolsChain) + (IF reservedPool # Null THEN 1 ELSE 0) IN
    /\ existing = RecordsInUse(pools)
    /\ existing <= poolsCount
    /\ Len(poolsChain) = Cardinality(Range(poolsChain))

\* -------------------------------------------------------------------------
\* used_memory() of the single-threaded chain.  The sizes are those of an
\* LP64 build with bytes = 16 and align = 8.
\* -------------------------------------------------------------------------
SizeofList == 24            \* sizeof(std::list<ChainedPool*>)
SizeofPointer == 8          \* sizeof(ChainedPool*)
SizeofSizeT == 8            \* sizeof(size_t)
SizeofPoolAllocator == 32   \* _capacity, _allocatedMemory, _memory, _current
SizeofPoolChunk == 40       \* allocator, allocations (uint32_t), padding
AllocationSize == 24        \* kAllocationSize = (bytes + sizeof(metaInfo) + 7) & ~7
AlignMask == 7              \* align - 1

\* PoolAllocator::used_memory() = sizeof(PoolAllocator) + memory_size()
PoolAllocator_used_memory(cap, size) ==
    SizeofPoolAllocator + (cap * size + AlignMask)

\* PoolChunk::used_memory()
PoolChunk_used_memory(cap) ==
    SizeofPoolChunk + PoolAllocator_used_memory(cap, AllocationSize)

\* _chunkMemorySize, set by the constructor from its first chunk
chunkMemorySize == PoolChunk_used_memory(poolCapacity)

\* PoolAllocatorChain::used_memory(); _pools holds poolsCount cells of
\* sizeof(ChainedPool) bytes
used_memory(chain, res) ==
    LET staticMemory == SizeofList + SizeofPointer + SizeofSizeT * 2
                          + PoolAllocator_used_memory(poolsCount, SizeofPoolChunk)
        count == Len(chain)
        usefulMemory == (count + (IF res # Null THEN 1 ELSE 0)) * chunkMemorySize
        additionaMemory == count * SizeofPointer
    IN  staticMemory + usefulMemory + additionaMemory

\* used_memory() of the chain the constructor leaves: the first chunk in
\* _poolsChain, no reserved chunk
ConstructedMemory ==
    LET r == fetch_add(PoolAllocator_ctor(poolsCount), poolsCount) IN
    used_memory(<<r.ret>>, Null)

\* C17: single-threaded chain: whenever every allocated block has been
\* released, used_memory() equals the value it had after construction.
C17_UsedMemoryRoundTrip ==
    (users = 0 /\ liveBlocks = {}) =>
        used_memory(poolsChain, reservedPool) = ConstructedMemory

\* what the code does instead: after a round trip that allocated at least
\* one block the chain is empty and one chunk is reserved, so used_memory()
\* is one sizeof(ChainedPool*) below the constructed value
RoundTripDropsOnePointer ==
    (users = 0 /\ liveBlocks = {} /\ last.op # "none") =>
        /\ poolsChain = <<>>
        /\ reservedPool # Null
        /\ used_memory(poolsChain, reservedPool) = ConstructedMemory - SizeofPointer

\* no alloc or free of the concurrent chain is in progress
Quiescent == users > 0 /\ \A t \in Threads : pc[t] = "idle"

\* C18: concurrent chain, no call in progress: the allocations counter of
\* every existing chunk equals the number of blocks of that chunk that were
\* returned by alloc and not yet released; when no block is held, every
\* chunk record is the reserved chunk or is in _poolsChain with counter 0.
C18_QuiescentCounterCountsHeld ==
    Quiescent =>
        /\ \A c \in ExistingChunks :
               /\ chunk[c] # NoChunk
               /\ chunk[c].allocations =
                      Cardinality({p \in AllHeld : BufferOf(p) = c})
        /\ AllHeld = {} =>
               \A c \in 0 .. poolsCount - 1 :
                   chunk[c] # NoChunk =>
                       \/ c = reservedPool
                       \/ c \in Range(poolsChain) /\ chunk[c].allocations = 0

\* =========================================================================
\* threads::RWSpinLock on one lock word, at the granularity of its atomic
\* operations.  Thread t is at pc[t]: "idle" (holds nothing), "rl_load" and
\* "rl_cas" (inside readLock), "reading" (readLock returned), "wl_cas"
\* (inside writeLock), "writing" (writeLock returned); its local v is
\* loc[t].value.  A thread releases what it acquired, as the RWSpinLock
\* object does in unlock().
\* =========================================================================
RW_Fixed == <<bpVars, chainVars, hist, liveBlocks, held, users, alternate, reservedLock, stackVars>>

SetV(t, v) == loc' = [loc EXCEPT ![t] = [NoLocals EXCEPT !.value = v]]

\* the test of readLock's loop on the local v and the lock word:
\* v < 0 || !compare_exchange(v, v + 1); ok = the loop ends
M_readLock_try_NoSignTest(v, word) ==
    IF word = v
    THEN [ok |-> TRUE, word |-> v + 1]
    ELSE [ok |-> FALSE, word |-> word]
readLock_try(v, word) ==
    IF v < 0
    THEN [ok |-> FALSE, word |-> word]
    ELSE IF word = v
         THEN [ok |-> TRUE, word |-> v + 1]
         ELSE [ok |-> FALSE, word |-> word]

\* the test of writeLock's loop: !compare_exchange(v, -1) with v = 0
writeLock_try(v, word) ==
    IF word = v
    THEN [ok |-> TRUE, word |-> -1]
    ELSE [ok |-> FALSE, word |-> word]

RW_Init ==
    /\ Stack_Unused
    /\ BP_Unused
    /\ Chain_Unused
    /\ hist = <<>>
    /\ liveBlocks = {}
    /\ pc = [t \in Threads |-> "idle"]
    /\ loc = [t \in Threads |-> NoLocals]
    /\ held = [t \in Threads |-> {}]
    /\ callsLeft = MaxLocks
    /\ users = NThreads
    /\ alternate = FALSE
    /\ rwLock = 0
    /\ reservedLock = FALSE

\* readLock(lock) is called
RW_ReadLockCall(t) ==
    /\ pc[t] = "idle" /\ callsLeft > 0
    /\ callsLeft' = callsLeft - 1
    /\ Goto(t, "rl_load")
    /\ UNCHANGED <<loc, rwLock, RW_Fixed>>

\* v = lock.load()
RW_ReadLoad(t) ==
    /\ pc[t] = "rl_load"
    /\ SetV(t, rwLock)
    /\ Goto(t, "rl_cas")
    /\ UNCHANGED <<rwLock, callsLeft, RW_Fixed>>

\* the loop test; compare_exchange_weak may also fail although the word
\* equals v.  When the test fails the body loads v again.
RW_ReadCas(t) ==
    /\ pc[t] = "rl_cas"
    /\ LET r == readLock_try(loc[t].value, rwLock) IN
         \/ /\ r.ok
            /\ rwLock' = r.word
            /\ Goto(t, "reading")
            /\ SetV(t, Null)
         \/ /\ rwLock' = rwLock
            /\ Goto(t, "rl_load")
            /\ UNCHANGED loc
    /\ UNCHANGED <<callsLeft, RW_Fixed>>

\* readUnlock(lock): lock.fetch_sub(1)
RW_ReadUnlock(t) ==
    /\ pc[t] = "reading"
    /\ rwLock' = rwLock - 1
    /\ Goto(t, "idle")
    /\ UNCHANGED <<loc, callsLeft, RW_Fixed>>

\* writeLock(lock) is called: v = 0
RW_WriteLockCall(t) ==
    /\ pc[t] = "idle" /\ callsLeft > 0
    /\ callsLeft' = callsLeft - 1
    /\ SetV(t, 0)
    /\ Goto(t, "wl_cas")
    /\ UNCHANGED <<rwLock, RW_Fixed>>

\* the loop test; when it fails the body sets v = 0 again
RW_WriteCas(t) ==
    /\ pc[t] = "wl_cas"
    /\ LET r == writeLock_try(loc[t].value, rwLock) IN
         \/ /\ r.ok
            /\ rwLock' = r.word
            /\ Goto(t, "writing")
            /\ SetV(t, Null)
         \/ /\ rwLock' = rwLock
            /\ Goto(t, "wl_cas")
            /\ UNCHANGED loc
    /\ UNCHANGED <<callsLeft, RW_Fixed>>

\* writeUnlock(lock): lock.store(0)
RW_WriteUnlock(t) ==
    /\ pc[t] = "writing"
    /\ rwLock' = 0
    /\ Goto(t, "idle")
    /\ UNCHANGED <<loc, callsLeft, RW_Fixed>>

RW_Thread(t) ==
    \/ RW_ReadLockCall(t) \/ RW_ReadLoad(t) \/ RW_ReadCas(t) \/ RW_ReadUnlock(t)
    \/ RW_WriteLockCall(t) \/ RW_WriteCas(t) \/ RW_WriteUnlock(t)

RW_Next == \E t \in Threads : RW_Thread(t)

SpecRW == RW_Init /\ [][RW_Next]_vars

Readers == {t \in Threads : pc[t] = "reading"}
Writers == {t \in Threads : pc[t] = "writing"}

\* C19 (SpecRW): the lock word is -1 or not negative; it is -1 exactly
\* while one thread is between writeLock and writeUnlock, otherwise it is
\* the number of threads between readLock and readUnlock; a writer is
\* inside with no reader and no other writer; readLock returns only by
\* incrementing a word that is not negative, writeLock only by changing 0
\* to -1.
C19_LockWordCountsHolders ==
    /\ rwLock = -1 \/ rwLock >= 0
    /\ rwLock = -1 <=> Cardinality(Writers) = 1
    /\ Cardinality(Writers) <= 1
    /\ rwLock # -1 => rwLock = Cardinality(Readers)
    /\ Writers # {} => Readers = {}
    /\ [][\A t \in Threads :
             (pc[t] # "reading" /\ pc'[t] = "reading")
                 => rwLock >= 0 /\ rwLock' = rwLock + 1]_vars
    /\ [][\A t \in Threads :
             (pc[t] # "writing" /\ pc'[t] = "writing")
                 => rwLock = 0 /\ rwLock' = -1]_vars
    /\ [][rwLock' = -1 => rwLock \in {0, -1}]_vars
    /\ [][rwLock < 0 => rwLock' \in {rwLock, 0}]_vars

\* a writer is inside while one thread spins in readLock on the negative
\* value it loaded and another spins in writeLock
C19_Witness ==
    /\ rwLock = -1
    /\ \E w, r, x \in Threads :
          /\ pc[w] = "writing"
          /\ pc[r] = "rl_cas" /\ loc[r].value = -1
          /\ pc[x] = "wl_cas"

\* threads between readLock and the read unlock of alloc(): they traverse
\* _poolsChain
Traversing == {t \in Threads : pc[t] \in {"loop", "fa_next", "fa_cas", "stamp", "a_unlock"}}

\* threads between writeLock and writeUnlock
WriteHolders == {t \in Threads : pc[t] \in {"grow", "retire"}}

\* C20 (SpecCChain): a step that changes _poolsChain, _reservedPool, _pools
\* or creates or destroys a chunk record is the step of a thread that holds
\* the write lock, and no thread is traversing _poolsChain at that step.
C20_MutationsUnderWriteLock ==
    [][(\/ poolsChain' # poolsChain
        \/ reservedPool' # reservedPool
        \/ pools' # pools
        \/ \E c \in DOMAIN chunk : (chunk[c] = NoChunk) # (chunk'[c] = NoChunk))
       => /\ rwLock = -1
          /\ Traversing = {}
          /\ \E t \in Threads :
                /\ WriteHolders = {t}
                /\ pc'[t] # pc[t]
                /\ \A u \in Threads \ {t} : pc'[u] = pc[u]]_vars

\* a second chunk has been appended, and a thread holds the write lock in
\* setReservedPool while another waits in readLock to traverse
C20_Witness ==
    /\ users > 0
    /\ rwLock = -1
    /\ Len(poolsChain) >= 2
    /\ \E t, u \in Threads : pc[t] = "retire" /\ pc[u] = "readLock"

\* =========================================================================
\* StackAllocatorImpl, StackAllocator, DualStackAllocator and StackScope.
\* A byte of the array _memory of the owning allocator is its offset in the
\* array; a pointer is the offset of the byte it points to.  A call whose
\* assert fails is not made.
\* =========================================================================
RegionBytes == 1024     \* StackAllocator<1024u>

\* StackAllocatorImpl::clear()
M_Stack_clear_Zero(s) == [s EXCEPT !.head = 0]
Stack_clear(s) ==
    [s EXCEPT !.head = IF s.top_down THEN s.sizeInBytes ELSE 0]

\* StackAllocatorImpl(memory): the span starts at byte first of the array
StackAllocatorImpl_ctor(size, top_down, first) ==
    Stack_clear([sizeInBytes |-> size, top_down |-> top_down, first |-> first, head |-> 0])

\* the asserts of alloc(bytes)
Stack_alloc_assert(s, bytes) ==
    IF s.top_down THEN s.head >= bytes ELSE s.head + bytes <= s.sizeInBytes

\* StackAllocatorImpl::alloc(bytes): the new object and the pointer returned
M_Stack_alloc_NoBump(s, bytes) ==
    [rec |-> s, ret |-> s.first + s.head]
Stack_alloc(s, bytes) ==
    IF s.top_down
    THEN [rec |-> [s EXCEPT !.head = s.head - bytes],
          ret |-> s.first + (s.head - bytes)]
    ELSE [rec |-> [s EXCEPT !.head = s.head + bytes],
          ret |-> s.first + s.head]

\* the assert of free(marker)
Stack_free_assert(s, m) == s.top_down => m <= s.sizeInBytes

\* StackAllocatorImpl::free(marker)
M_Stack_free_AsClear(s, m) == Stack_clear(s)
Stack_free(s, m) == [s EXCEPT !.head = m]

\* StackAllocatorImpl::head()
Stack_head(s) == s.head

\* StackAllocatorImpl::freeBytesCount()
freeBytesCount(s) ==
    IF s.top_down THEN s.head ELSE s.sizeInBytes - s.head

\* StackAllocator<sizeInBytes>: one top-down object over the whole array
StackAllocator_ctor(size) == <<StackAllocatorImpl_ctor(size, TRUE, 0)>>

\* DualStackAllocator<sizeInBytes>: _topStack (1) is top-down with
\* sizeInBytes / 2 bytes over the span that starts at byte sizeInBytes / 2,
\* _bottomStack (2) is bottom-up with sizeInBytes - sizeInBytes / 2 bytes
\* over the whole array
DualStackAllocator_ctor(size) ==
    <<StackAllocatorImpl_ctor(size \div 2, TRUE, size \div 2),
      StackAllocatorImpl_ctor(size - size \div 2, FALSE, 0)>>

\* StackScope(stack): _marker = stack.head(); since is the number of calls
\* made before the construction
StackScope_ctor(i) ==
    [stack |-> i, marker |-> Stack_head(impl[i]), since |-> Len(trail)]

\* the sizes asked of alloc: hundreds of bytes of the 1024-byte region, a
\* few bytes of the small ones
Requests ==
    IF sizeInBytes = RegionBytes
    THEN {100 * k : k \in 1 .. MaxRequest}
    ELSE 0 .. MaxRequest

Stack_Start(objects, calls) ==
    /\ BP_Unused
    /\ Chain_Unused
    /\ hist = <<>>
    /\ liveBlocks = {}
    /\ pc = [t \in Threads |-> "idle"]
    /\ loc = [t \in Threads |-> NoLocals]
    /\ held = [t \in Threads |-> {}]
    /\ users = 0
    /\ alternate = FALSE
    /\ rwLock = 0
    /\ reservedLock = FALSE
    /\ callsLeft = calls
    /\ impl = objects
    /\ marker = [i \in DOMAIN objects |-> Null]
    /\ handed = [i \in DOMAIN objects |-> {}]
    /\ scopes = <<>>
    /\ trail = <<>>

\* allocators::StackAllocator<1024u> stack
Stack_Init ==
    /\ sizeInBytes = RegionBytes
    /\ Stack_Start(StackAllocator_ctor(sizeInBytes), MaxStackCalls)

\* allocators::DualStackAllocator<sizeInBytes> stack
Dual_Init ==
    /\ sizeInBytes \in 1 .. MaxBytes
    /\ Stack_Start(DualStackAllocator_ctor(sizeInBytes), MaxDualCalls)

SA_Fixed == <<bpVars, chainVars, hist, liveBlocks, pc, loc, held, users, alternate,
              rwLock, reservedLock, sizeInBytes>>

\* the call is made and recorded with the head and free bytes it leaves
Called(op, i, arg, ret, rec) ==
    /\ callsLeft > 0
    /\ callsLeft' = callsLeft - 1
    /\ impl' = [impl EXCEPT ![i] = rec]
    /\ trail' = Append(trail, [op |-> op, stack |-> i, arg |-> arg, ret |-> ret,
                               head |-> Stack_head(rec), free |-> freeBytesCount(rec)])

\* alloc(bytes)
SA_Alloc(i) ==
    \E bytes \in Requests :
        /\ Stack_alloc_assert(impl[i], bytes)
        /\ LET r == Stack_alloc(impl[i], bytes) IN
             /\ Called("alloc", i, bytes, r.ret, r.rec)
             /\ handed' = [handed EXCEPT ![i] = @ \cup {[ptr |-> r.ret, bytes |-> bytes]}]
        /\ UNCHANGED <<marker, scopes, SA_Fixed>>

\* marker = head()
SA_Head(i) ==
    /\ Called("head", i, Null, Stack_head(impl[i]), impl[i])
    /\ marker' = [marker EXCEPT ![i] = Stack_head(impl[i])]
    /\ UNCHANGED <<scopes, handed, SA_Fixed>>

\* free(marker) with the marker the caller holds
SA_Free(i) ==
    /\ marker[i] # Null
    /\ Stack_free_assert(impl[i], marker[i])
    /\ Called("free", i, marker[i], Null, Stack_free(impl[i], marker[i]))
    /\ UNCHANGED <<marker, scopes, handed, SA_Fixed>>

\* clear()
SA_Clear(i) ==
    /\ Called("clear", i, Null, Null, Stack_clear(impl[i]))
    /\ UNCHANGED <<marker, scopes, handed, SA_Fixed>>

\* a block is entered that declares a StackScope on the object
SA_Enter(i) ==
    /\ Len(scopes) < MaxScopes
    /\ Called("enter", i, Null, Null, impl[i])
    /\ scopes' = Append(scopes, StackScope_ctor(i))
    /\ UNCHANGED <<marker, handed, SA_Fixed>>

\* the innermost block is left: ~StackScope() calls _stack.free(_marker)
SA_Leave ==
    /\ scopes # <<>>
    /\ LET sc == scopes[Len(scopes)] IN
         /\ Stack_free_assert(impl[sc.stack], sc.marker)
         /\ Called("leave", sc.stack, sc.marker, Null, Stack_free(impl[sc.stack], sc.marker))
    /\ scopes' = SubSeq(scopes, 1, Len(scopes) - 1)
    /\ UNCHANGED <<marker, handed, SA_Fixed>>

SA_Next ==
    \/ \E i \in DOMAIN impl :
          SA_Alloc(i) \/ SA_Head(i) \/ SA_Free(i) \/ SA_Clear(i) \/ SA_Enter(i)
    \/ SA_Leave

SpecStack == Stack_Init /\ [][SA_Next]_vars

SpecDual == Dual_Init /\ [][SA_Next]_vars

\* the first calls on the region were: m0 = head(), alloc(100), a block with
\* a StackScope in which alloc(200) was called, and the block was left
ScopeRewindScenario ==
    /\ Len(trail) >= 5
    /\ trail[1].op = "head"
    /\ trail[2].op = "alloc" /\ trail[2].arg = 100
    /\ trail[3].op = "enter"
    /\ trail[4].op = "alloc" /\ trail[4].arg = 200
    /\ trail[5].op = "leave"

\* the scenario was followed by free(m0)
ScopeRewindFreed ==
    /\ ScopeRewindScenario
    /\ Len(trail) >= 6
    /\ trail[6].op = "free" /\ trail[6].arg = trail[1].ret

\* C21 as stated (SpecStack): StackAllocator of 1024 bytes, m0 = head(),
\* alloc(100), a scope in which 200 bytes are allocated and which is left:
\* head = m0 + 100; then free(m0): the free bytes are 1024.
C21_ScopeRewindAsStated ==
    /\ ScopeRewindScenario => trail[5].head = trail[1].ret + 100
    /\ ScopeRewindFreed => trail[6].free = RegionBytes

\* C21 amended (SpecStack): the same scenario leaves head = m0 - 100, the
\* region being top-down; then free(m0) leaves 1024 free bytes.
C21_ScopeRewind ==
    /\ ScopeRewindScenario =>
          /\ trail[1].ret = RegionBytes
          /\ trail[4].head = trail[1].ret - 300
          /\ trail[5].head = trail[1].ret - 100
          /\ trail[5].free = RegionBytes - 100
    /\ ScopeRewindFreed =>
          /\ trail[6].head = trail[1].ret
          /\ trail[6].free = RegionBytes

\* the whole scenario has run
C21_Witness ==
    /\ ScopeRewindFreed
    /\ Len(trail) = 6
    /\ impl[1].head = RegionBytes
    /\ scopes = <<>>

\* a StackAllocator<1024u> or a DualStackAllocator of 1..MaxBytes bytes
Stacks_Init == Stack_Init \/ Dual_Init

SpecStacks == Stacks_Init /\ [][SA_Next]_vars

\* C22 (SpecStacks): when a StackScope is destroyed it is the innermost one
\* alive, and head of its stack becomes what it was when the scope was
\* constructed, whatever alloc, free, clear and inner scopes came between;
\* the other stack object is left alone.
C22_ScopeRestoresHead ==
    [][Len(scopes') < Len(scopes) =>
          LET sc == scopes[Len(scopes)]
              entered == trail[sc.since + 1] IN
          /\ scopes' = SubSeq(scopes, 1, Len(scopes) - 1)
          /\ entered.op = "enter" /\ entered.stack = sc.stack
          /\ \A k \in sc.since + 2 .. Len(trail) :
                 trail[k].op = "enter" => \E j \in k + 1 .. Len(trail) :
                                              trail[j].op = "leave"
          /\ Stack_head(impl'[sc.stack]) = entered.head
          /\ \A i \in DOMAIN impl \ {sc.stack} : impl'[i] = impl[i]]_vars

\* two nested scopes, each with an alloc inside, have been left: the inner
\* one restored the head it recorded after the first alloc, the outer one
\* the head of the empty region
C22_Witness ==
    /\ Len(trail) = 6
    /\ trail[1].op = "enter" /\ trail[2].op = "alloc" /\ trail[2].arg > 0
    /\ trail[3].op = "enter" /\ trail[4].op = "alloc" /\ trail[4].arg > 0
    /\ trail[5].op = "leave" /\ trail[5].head = trail[2].head
    /\ trail[6].op = "leave" /\ trail[6].head = trail[1].head
    /\ trail[4].head # trail[2].head

\* calls j .. j + 3 were clear(), m = head(), alloc(k) and free(m) on one
\* stack object
ClearAllocFree(j) ==
    /\ j + 3 <= Len(trail)
    /\ trail[j].op = "clear"
    /\ trail[j + 1].op = "head" /\ trail[j + 1].stack = trail[j].stack
    /\ trail[j + 2].op = "alloc" /\ trail[j + 2].stack = trail[j].stack
    /\ trail[j + 3].op = "free" /\ trail[j + 3].stack = trail[j].stack
    /\ trail[j + 3].arg = trail[j + 1].ret

\* C23 (SpecStacks): top-down and bottom-up objects: after clear(),
\* m = head(), alloc(k) within the region and free(m), head is what it was
\* right after clear() and the free bytes are the whole region; a clear()
\* right after a clear() changes nothing.
C23_ClearAllocFreeRoundTrip ==
    \A j \in 1 .. Len(trail) :
        LET s == impl[trail[j].stack] IN
        /\ trail[j].op = "clear" =>
              /\ trail[j].free = s.sizeInBytes
              /\ trail[j].head = (IF s.top_down THEN s.sizeInBytes ELSE 0)
        /\ ClearAllocFree(j) =>
              /\ trail[j + 2].free = s.sizeInBytes - trail[j + 2].arg
              /\ trail[j + 3].head = trail[j].head
              /\ trail[j + 3].free = s.sizeInBytes
        /\ (j < Len(trail) /\ trail[j].op = "clear" /\ trail[j + 1].op = "clear"
              /\ trail[j + 1].stack = trail[j].stack) =>
              /\ trail[j + 1].head = trail[j].head
              /\ trail[j + 1].free = trail[j].free

\* the round trip on the bottom-up half of a dual allocator, with an alloc
\* that fills the half
C23_Witness ==
    /\ ClearAllocFree(1)
    /\ ~impl[trail[1].stack].top_down
    /\ trail[3].arg > 0
    /\ trail[3].free = 0
    /\ trail[4].free = impl[trail[1].stack].sizeInBytes

\* the bytes of the array inside the blocks that alloc of stack object i
\* returned
BytesHanded(i) == UNION {b.ptr .. b.ptr + b.bytes - 1 : b \in handed[i]}

\* C24 (SpecDual): DualStackAllocator of any size, every alloc within the
\* capacity of its half: no byte returned by top() is returned by bottom().
C24_HalvesNeverOverlap ==
    Len(impl) = 2 => BytesHanded(1) \cap BytesHanded(2) = {}

\* with an even sizeInBytes the halves are [0, n/2) and [n/2, n) and do not
\* overlap
EvenHalvesNeverOverlap ==
    (Len(impl) = 2 /\ sizeInBytes % 2 = 0) =>
        /\ BytesHanded(1) \cap BytesHanded(2) = {}
        /\ BytesHanded(2) \subseteq 0 .. sizeInBytes \div 2 - 1
        /\ BytesHanded(1) \subseteq sizeInBytes \div 2 .. sizeInBytes - 1

\* the chunk record that the next step of thread t reads or writes (its
\* free-list, its buffer or its allocations counter), Null when it touches
\* none
Touched(t) ==
    IF pc[t] \in {"fa_next", "fa_cas", "stamp", "fs_cas", "dec", "retire"}
    THEN loc[t].pool
    ELSE IF pc[t] = "loop" /\ loc[t].it <= Len(poolsChain)
         THEN poolsChain[loc[t].it]
         ELSE Null

\* C25: concurrent chain: no thread is about to read or write a chunk
\* record that has been destroyed through _pools; in particular no thread
\* that is past writeLock in setReservedPool(pool) holds a destroyed pool.
C25_NoUseOfDestroyedChunk ==
    users > 0 =>
        \A t \in Threads : Touched(t) # Null => chunk[Touched(t)] # NoChunk

\* C26: concurrent chain: when no alloc or free is in progress, every call
\* having returned (with a block, with Null, with true or false), the lock
\* word is 0: no return path leaves the lock held.
C26_QuiescentLockIsFree ==
    Quiescent => rwLock = 0

\* C27 (SpecCBP): when the compare_exchange of fetch_add() succeeds and
\* removes cell A from _current, the new _current is A's next field as it
\* is at that step, and it is the sentinel or a cell no caller holds.
C27_CasInstallsCurrentNext ==
    [][\A t \in Threads :
          (CBP_FaCas(t) /\ allocator.current = loc[t].value) =>
              /\ allocator'.current = allocator.memory[loc[t].value]
              /\ \/ allocator'.current = capacity
                 \/ allocator'.current \notin AllHeld']_vars

\* the cells reachable from _current through next
Reachable(p) == Range(FreeList(p, capacity))

\* what fetch_sub() itself does: its compare_exchange succeeds only when
\* the cell's next is the _current it replaces, and a failed one leaves the
\* _current it found in the cell's next
ReleaseCasSteps ==
    [][\A t \in Threads :
          CBP_FsCas(t) =>
              LET p == loc[t].mem IN
              IF allocator.current = allocator.memory[p]
              THEN /\ allocator'.current = p
                   /\ allocator'.memory[p] = allocator.current
                   /\ pc'[t] = "idle"
              ELSE /\ allocator'.current = allocator.current
                   /\ allocator'.memory[p] = allocator.current
                   /\ pc'[t] = "fs_cas"]_vars

\* C28 (SpecCBP): a cell becomes reachable from _current only by the
\* successful compare_exchange of the free() that releases it, and then its
\* next is the _current that is replaced; no alloc returns a cell while a
\* free() of that cell is before its successful compare_exchange; a failed
\* compare_exchange leaves the current _current in the cell's next.
C28_ReleasePublishesByCas ==
    /\ [][\A p \in Cells :
             (p \notin Reachable(allocator) /\ p \in Reachable(allocator')) =>
                 \E t \in Threads :
                     /\ pc[t] = "fs_cas" /\ loc[t].mem = p /\ pc'[t] = "idle"
                     /\ allocator.memory[p] = allocator.current
                     /\ allocator'.current = p]_vars
    /\ [][\A t, u \in Threads :
             (pc[t] = "fs_cas" /\ CBP_FaCas(u) /\ allocator.current = loc[u].value)
                 => loc[u].value # loc[t].mem]_vars
    /\ ReleaseCasSteps

\* chunk c has a block that a caller holds, or a cell that an alloc() has
\* popped and not yet counted or returned
InUse(c) ==
    \/ \E p \in AllHeld : BufferOf(p) = c
    \/ \E t \in Threads : pc[t] \in {"stamp", "a_unlock"} /\ loc[t].pool = c

\* C29: concurrent chain: a chunk leaves _poolsChain or becomes the
\* reserved chunk only in a step taken under the write lock that finds its
\* allocations counter 0, a chunk is destroyed only as the displaced
\* reserved chunk with counter 0, and no chunk in use is the reserved chunk
\* or destroyed.
C29_OnlyIdleChunksRetire ==
    /\ [][\A c \in DOMAIN chunk :
             (\/ c \in Range(poolsChain) /\ c \notin Range(poolsChain')
              \/ reservedPool' = c /\ reservedPool # c)
             => /\ rwLock = -1
                /\ chunk[c] # NoChunk
                /\ chunk[c].allocations = 0]_vars
    /\ [][\A c \in DOMAIN chunk :
             (chunk[c] # NoChunk /\ chunk'[c] = NoChunk)
             => /\ rwLock = -1
                /\ c = reservedPool
                /\ chunk[c].allocations = 0]_vars
    /\ users > 0 =>
          \A c \in DOMAIN chunk :
              (c = reservedPool \/ chunk[c] = NoChunk) => ~InUse(c)

\* C30: concurrent chain: the step in which alloc() gives up and returns
\* Null is taken under the write lock in a state where every chunk of
\* _poolsChain is full, there is no reserved chunk and _pools has no free
\* record.
C30_FailsOnlyWhenFullAndCannotGrow ==
    [][\A t \in Threads :
          (pc[t] = "grow" /\ pc'[t] = "idle" /\ last'.op = "alloc" /\ last'.ret = Null)
          => /\ rwLock = -1
             /\ reservedPool = Null
             /\ nospace(pools, poolsCount)
             /\ \A i \in 1 .. Len(poolsChain) : ~HasFreeCell(poolsChain[i])]_vars

\* what the code guarantees at that step: no reserved chunk, no free record
\* and as many chunks in _poolsChain as when the thread left the loop
FailsOnlyWhenCannotGrow ==
    [][\A t \in Threads :
          (pc[t] = "grow" /\ pc'[t] = "idle" /\ last'.op = "alloc" /\ last'.ret = Null)
          => /\ rwLock = -1
             /\ reservedPool = Null
             /\ nospace(pools, poolsCount)
             /\ loc[t].chainSize = Len(poolsChain)]_vars

\* C31 (SpecCChain): alloc(), after a traversal without success: the step
\* that reads _poolsChain.size() into chainSize is taken while the thread
\* still holds the read lock it traversed under (snapshot first, then
\* release the read lock, then acquire the write lock).
C31_SnapshotUnderReadLock ==
    [][\A t \in Threads :
          (pc[t] = "snapshot" /\ pc'[t] = "a_wlock")
              => (t \in Traversing /\ rwLock > 0)]_vars

\* C32 (SpecCChain): alloc() holding the write lock: when
\* _poolsChain.size() differs from chainSize the thread write-unlocks,
\* leaves _poolsChain, _reservedPool, _pools and the chunk records as they
\* are and goes back to __alloc_start (readLock); a chunk is appended to
\* _poolsChain only by a thread whose chainSize equals the current size.
C32_RestartWhenChainChanged ==
    [][/\ \A t \in Threads :
            (pc[t] = "grow" /\ pc'[t] # "grow" /\ loc[t].chainSize # Len(poolsChain))
                => /\ rwLock' = 0
                   /\ pc'[t] = "readLock"
                   /\ UNCHANGED <<poolsChain, reservedPool, pools, chunk, last>>
       /\ Len(poolsChain') > Len(poolsChain)
            => \E t \in Threads :
                  /\ pc[t] = "grow" /\ pc'[t] = "readLock"
                  /\ loc[t].chainSize = Len(poolsChain)
                  /\ poolsChain' = Append(poolsChain, poolsChain'[Len(poolsChain')])]_vars

\* a thread holds the write lock in alloc() with a snapshot that no longer
\* matches: another thread has appended a chunk since
C32_Witness ==
    \E t \in Threads :
        /\ pc[t] = "grow" /\ rwLock = -1
        /\ loc[t].chainSize < Len(poolsChain)
        /\ chunk[poolsChain[Len(poolsChain)]] # NoChunk

\* C33 (SpecCChain): no thread waits for the write lock while it holds the
\* read lock: a thread at writeLock (in alloc() or in setReservedPool()) is
\* not between readLock and its read unlock, and the lock word, when it is
\* not write-held, counts exactly the threads that are; so a thread at
\* writeLock has no read count of its own in the word it waits on.
C33_NoReaderToWriterUpgrade ==
    users > 0 =>
        \A t \in Threads :
            pc[t] \in {"a_wlock", "r_wlock"}
                => /\ t \notin Traversing
                   /\ rwLock >= 0 => rwLock = Cardinality(Traversing)

\* one thread waits at writeLock in alloc() after its traversal, having
\* given its read lock back, while the other thread still traverses
C33_Witness ==
    \E t, u \in Threads :
        /\ pc[t] = "a_wlock" /\ pc[u] = "loop"
        /\ rwLock = 1

\* C34 (SpecCBP): thread-safe fetch_add(): the value whose next is read for
\* the compare_exchange is never &_memory[_capacity], on the first attempt
\* and on every retry; and a compare_exchange that fails having found
\* _current at &_memory[_capacity] makes alloc() return nullptr.
C34_SentinelRecheckedOnRetry ==
    /\ [](\A t \in Threads :
            pc[t] \in {"fa_next", "fa_cas"} => loc[t].value \in 0 .. capacity - 1)
    /\ [][\A t \in Threads :
            (pc[t] = "fa_cas" /\ pc'[t] # "fa_cas" /\ allocator.current = capacity)
                => /\ pc'[t] = "idle"
                   /\ last' = [op |-> "alloc", arg |-> Null, ret |-> Null, ok |-> FALSE]
                   /\ held' = held
                   /\ allocator' = allocator]_vars

\* a thread is about to compare-exchange from a cell it loaded while other
\* threads have taken every cell since: _current is the sentinel
C34_Witness ==
    \E t \in Threads :
        /\ pc[t] = "fa_cas"
        /\ loc[t].value # capacity
        /\ allocator.current = capacity
        /\ Cardinality(AllHeld) = capacity

\* -------------------------------------------------------------------------
\* Progress of the concurrent Block Pool.  The callers go on calling: the
\* budget of calls is refilled, so a thread can call alloc() and free()
\* without end, as the worker loops of main() do for as long as they run.
\* -------------------------------------------------------------------------

CBP_Thread(t) ==
    \/ CBP_AllocCall(t)
    \/ CBP_FaNext(t)
    \/ CBP_FaCas(t)
    \/ CBP_FreeCall(t)
    \/ CBP_FsCas(t)

\* the budget is used up and one more call is to come
CBP_MoreCalls ==
    /\ callsLeft = 0
    /\ callsLeft' = 1
    /\ UNCHANGED <<allocator, pc, loc, held, last, CBP_Fixed>>

\* the threads that call the pool in the progress runs
Callers == 1 .. MaxUsers

Fair_Init == CBP_Init /\ capacity <= FairCapacity

Fair_Next == (\E t \in Callers : CBP_Thread(t)) \/ CBP_MoreCalls

\* every calling thread that can take a step eventually takes one; whether
\* more calls come is up to the callers
FairCBP ==
    /\ Fair_Init
    /\ [][Fair_Next]_vars
    /\ \A t \in Callers : WF_vars(CBP_Thread(t))

\* C35 (FairCBP): free() of the thread-safe pool is wait-free: a thread that
\* has entered fetch_sub() and keeps taking steps leaves it, whatever the
\* other threads do in between.
C35_ReleaseIsWaitFree ==
    \A t \in Callers : (pc[t] = "fs_cas") ~> (pc[t] = "idle")

C37_ActiveChunksHaveLiveBlocks ==
    last # NoCall =>
        /\ \A i \in 1 .. Len(poolsChain) :
              /\ chunk[poolsChain[i]] # NoChunk
              /\ chunk[poolsChain[i]].allocations >= 1
        /\ liveBlocks = {} =>
              /\ poolsChain = <<>>
              /\ reservedPool # Null
              /\ {c \in DOMAIN chunk : chunk[c] # NoChunk} = {reservedPool}
              /\ chunk[reservedPool].allocations = 0
              /\ RecordsInUse(pools) = 1

\* the chain had grown to two chunks or more and every block has been
\* given back since
C37_Witness ==
    /\ last.op \in {"free", "destroy"}
    /\ liveBlocks = {}
    /\ poolsChain = <<>>
    /\ reservedPool \notin {Null, 0}

\* -------------------------------------------------------------------------
\* Overlapping retirements.  The concurrent chain as above, with the runs of
\* setReservedPool() remembered: when a run finds allocations == 0 on an
\* existing chunk, hist gets the threads that are already waiting at
\* writeLock of setReservedPool() for the same chunk, each after its own
\* decrement to 0; their runs are the second runs for that chunk.  An entry
\* goes when its thread has run, or when its chunk is destroyed.
\* -------------------------------------------------------------------------

WaitingToRetire(pool) ==
    {u \in Threads : pc[u] = "r_wlock" /\ loc[u].pool = pool}

Owed(t, pool) == [thread |-> t, pool |-> pool]

\* CC_Retire(t), with hist kept
CR_Retire(t) ==
    /\ pc[t] = "retire"
    /\ \E loaded \in LoadAllocations(chunk, loc[t].pool) :
         LET pool == loc[t].pool
             s == setReservedPool_ts(pools, chunk, poolsChain, reservedPool,
                                     poolsCount, pool, loaded)
             kept == SelectSeq(hist, LAMBDA e : /\ e.thread # t
                                                /\ s.chunk[e.pool] # NoChunk
                                                /\ e.pool # pool)
             owed == IF loaded = 0 /\ chunk[pool] # NoChunk
                     THEN WaitingToRetire(pool) ELSE {} IN
         /\ pools' = s.pools /\ chunk' = s.chunk
         /\ poolsChain' = s.poolsChain /\ reservedPool' = s.reservedPool
         /\ hist' = kept \o [i \in 1 .. Cardinality(owed) |->
                               Owed(CHOOSE u \in owed :
                                      Cardinality({w \in owed : w < u}) = i - 1, pool)]
    /\ rwLock' = 0
    /\ Return(t, [op |-> "free", arg |-> Null, ret |-> Null, ok |-> TRUE])
    /\ UNCHANGED <<held, callsLeft, poolCapacity, poolsCount, bpVars, liveBlocks,
                   users, alternate, reservedLock, stackVars>>

CR_Thread(t) ==
    \/ CC_AllocCall(t)
    \/ CC_ReadLock(t)
    \/ CC_Loop(t)
    \/ CC_FaNext(t)
    \/ CC_FaCas(t)
    \/ CC_Stamp(t)
    \/ CC_AllocReturn(t)
    \/ CC_Snapshot(t)
    \/ CC_AllocWriteLock(t)
    \/ CC_Grow(t)
    \/ CC_FreeCall(t)
    \/ CC_FsCas(t)
    \/ CC_Dec(t)
    \/ CC_RetireWriteLock(t)
    \/ CR_Retire(t)

CR_Next == \E t \in Threads : CR_Thread(t)

SpecRetire == CC_Init /\ [][CR_Next]_vars

\* thread u takes the step that runs setReservedPool() for chunk c, as a
\* second run: c exists, a run by another thread found c.allocations == 0
\* while u was already waiting, and c.allocations is 0 now
SecondRun(u, c) ==
    /\ pc[u] = "retire" /\ pc'[u] = "idle"
    /\ loc[u].pool = c
    /\ Owed(u, c) \in Range(hist)
    /\ chunk[c] # NoChunk
    /\ chunk[c].allocations = 0

\* C38 as stated: the second run does not destroy C, leaves _poolsChain
\* unchanged and leaves C as the reserved chunk.
C38_SecondRunIdempotentAsStated ==
    [][\A u \in Threads : \A c \in DOMAIN chunk :
          SecondRun(u, c)
              => /\ chunk'[c] # NoChunk
                 /\ reservedPool' = c
                 /\ poolsChain' = poolsChain]_vars

\* C38 (SpecRetire): the second run of setReservedPool() for an existing
\* chunk C that has allocations == 0 at both runs does not destroy C and
\* leaves C as the reserved chunk, out of _poolsChain; it changes nothing
\* when C is still the reserved chunk, and when an alloc() has appended C to
\* _poolsChain again in between it removes C from _poolsChain once more.
C38_SecondRunIdempotent ==
    [][\A u \in Threads : \A c \in DOMAIN chunk :
          SecondRun(u, c)
              => /\ chunk'[c] = chunk[c]
                 /\ reservedPool' = c
                 /\ poolsChain' = ListRemove(poolsChain, c)
                 /\ reservedPool = c
                      => UNCHANGED <<poolsChain, reservedPool, pools, chunk>>
                 /\ poolsChain' # poolsChain => reservedPool # c]_vars

\* two threads have each taken chunk C's counter from 1 to 0; the first has
\* run setReservedPool(), the second holds the write lock for its run and C
\* is still the reserved chunk
C38_Witness ==
    \E u \in Threads :
        /\ pc[u] = "retire"
        /\ Owed(u, loc[u].pool) \in Range(hist)
        /\ reservedPool = loc[u].pool
        /\ chunk[loc[u].pool] # NoChunk
        /\ chunk[loc[u].pool].allocations = 0

\* =========================================================================
\* The thread-safe PoolAllocatorChain of src/unnamed/part_000: growth in
\* alloc() runs under threads::SpinLock lock(_reservedLock), not under the
\* write lock; setReservedPool() takes the write lock and then
\* _reservedLock.  The read-locked traversal, the snapshot and free() up
\* to the write lock are the steps of the chain above (the label "a_wlock"
\* is the statement after the snapshot, here the SpinLock constructor).
\* The traversal reads _poolsChain as it is at each of its steps.
\* =========================================================================

FL_Fixed == <<poolCapacity, poolsCount, bpVars, hist, liveBlocks, users, alternate, stackVars>>

\* threads::SpinLock lock(_reservedLock) in alloc()
FL_AllocSpinLock(t) ==
    /\ pc[t] = "a_wlock"
    /\ reservedLock = FALSE
    /\ reservedLock' = TRUE
    /\ Goto(t, "grow")
    /\ UNCHANGED <<loc, held, callsLeft, rwLock, pools, chunk, poolsChain, reservedPool,
                   last, afterFail, FL_Fixed>>

\* the block of alloc() that runs holding _reservedLock; lock.unlock() on
\* the two goto paths, the destructor of lock at the end of the block
FL_Grow(t) ==
    /\ pc[t] = "grow"
    /\ reservedLock' = FALSE
    /\ IF loc[t].chainSize # Len(poolsChain)
       THEN /\ Goto(t, "readLock")
            /\ loc' = [loc EXCEPT ![t] = NoLocals]
            /\ UNCHANGED <<pools, chunk, poolsChain, reservedPool, last, afterFail>>
       ELSE IF reservedPool # Null \/ ~nospace(pools, poolsCount)
       THEN LET g == GrowthChunk(pools, chunk, reservedPool, poolsCount, poolCapacity) IN
            /\ pools' = g.pools
            /\ chunk' = g.chunk
            /\ reservedPool' = Null
            /\ poolsChain' = Append(poolsChain, g.pool)
            /\ Goto(t, "readLock")
            /\ loc' = [loc EXCEPT ![t] = NoLocals]
            /\ UNCHANGED <<last, afterFail>>
       ELSE /\ Return(t, [op |-> "alloc", arg |-> Null, ret |-> Null, ok |-> FALSE])
            /\ UNCHANGED <<pools, chunk, poolsChain, reservedPool>>
    /\ UNCHANGED <<held, callsLeft, rwLock, FL_Fixed>>

\* threads::SpinLock lock(_reservedLock) in setReservedPool(), after the
\* write lock
FL_RetireSpinLock(t) ==
    /\ pc[t] = "retire"
    /\ reservedLock = FALSE
    /\ reservedLock' = TRUE
    /\ Goto(t, "r_body")
    /\ UNCHANGED <<loc, held, callsLeft, rwLock, pools, chunk, poolsChain, reservedPool,
                   last, afterFail, FL_Fixed>>

\* the body of setReservedPool() and _rwLock.store(0)
FL_Retire(t) ==
    /\ pc[t] = "r_body"
    /\ \E loaded \in LoadAllocations(chunk, loc[t].pool) :
         LET s == setReservedPool_ts(pools, chunk, poolsChain, reservedPool,
                                     poolsCount, loc[t].pool, loaded) IN
         /\ pools' = s.pools /\ chunk' = s.chunk
         /\ poolsChain' = s.poolsChain /\ reservedPool' = s.reservedPool
    /\ rwLock' = 0
    /\ Goto(t, "r_unflag")
    /\ UNCHANGED <<loc, held, callsLeft, reservedLock, last, afterFail, FL_Fixed>>

\* the destructor of lock at the end of setReservedPool(); free() returns true
FL_RetireReturn(t) ==
    /\ pc[t] = "r_unflag"
    /\ reservedLock' = FALSE
    /\ Return(t, [op |-> "free", arg |-> Null, ret |-> Null, ok |-> TRUE])
    /\ UNCHANGED <<held, callsLeft, rwLock, pools, chunk, poolsChain, reservedPool, FL_Fixed>>

FL_Thread(t) ==
    \/ CC_AllocCall(t)
    \/ CC_ReadLock(t)
    \/ CC_Loop(t)
    \/ CC_FaNext(t)
    \/ CC_FaCas(t)
    \/ CC_Stamp(t)
    \/ CC_AllocReturn(t)
    \/ CC_Snapshot(t)
    \/ FL_AllocSpinLock(t)
    \/ FL_Grow(t)
    \/ CC_FreeCall(t)
    \/ CC_FsCas(t)
    \/ CC_Dec(t)
    \/ CC_RetireWriteLock(t)
    \/ FL_RetireSpinLock(t)
    \/ FL_Retire(t)
    \/ FL_RetireReturn(t)

FL_Next == \E t \in Threads : FL_Thread(t)

SpecFlag == CC_Init /\ [][FL_Next]_vars

\* threads between the write lock of setReservedPool() and _rwLock.store(0)
FL_WriteHolders == {t \in Threads : pc[t] \in {"retire", "r_body"}}

\* C39 (SpecFlag): in the variant with _reservedLock, a step that appends
\* to _poolsChain, removes from it, or sets or clears _reservedPool is the
\* step of a thread that holds the write lock (_rwLock = -1), and no thread
\* is between its read lock and read unlock, traversing _poolsChain, at
\* that step.
C39_FlagVariantMutatesUnderWriteLock ==
    [][(poolsChain' # poolsChain \/ reservedPool' # reservedPool)
       => /\ rwLock = -1
          /\ Traversing = {}
          /\ \E t \in Threads :
                /\ FL_WriteHolders = {t}
                /\ pc'[t] # pc[t]]_vars

\* what the variant does guarantee: such a step is taken by the one thread
\* that holds _reservedLock
MutationsUnderReservedLock ==
    [][(poolsChain' # poolsChain \/ reservedPool' # reservedPool)
       => /\ reservedLock
          /\ \E t \in Threads :
                /\ {u \in Threads : pc[u] \in {"grow", "r_body", "r_unflag"}} = {t}
                /\ pc'[t] # pc[t]]_vars

=============================================================================
